---- MODULE Spec2Model ----
(***************************************************************************)
(* Model of the simulation-instance core of nevy_prediction: the per       *)
(* instance tick clock (Time<SimulationTime>), the fixed-step scheduler    *)
(* (run_simulation_schedule), the tick-stamped WorldUpdateQueue with its   *)
(* drainers, the SimulationEntity id map maintained by component hooks,    *)
(* and SimulationWorld::run / reset / extract.                             *)
(*                                                                         *)
(* The scheme modelled is the example scheme (crates/example/src/          *)
(* simulation/mod.rs): one user update type UpdateExampleBox, the built-in *)
(* DespawnSimulatonEntity update, and the ExampleBox component registered  *)
(* for extraction.                                                         *)
(*                                                                         *)
(* Bevy Commands are deferred: a system reads the world as it was when the *)
(* system started and its commands are applied at the next sync point.     *)
(* A system that returns Err stops where it returned; the schedule goes on *)
(* with the next system (the error is reported, the world is kept).        *)
(***************************************************************************)
EXTENDS Integers, Sequences, FiniteSets, TLC

(* ----------------------------- bounds ---------------------------------- *)
MaxTick == 2        \* largest target_tick / reset tick explored
MaxUpdates == 2     \* WorldUpdates inserted over one behaviour
MaxEntity == 3      \* local entity handles allocated per instance
MaxPasses == 2      \* SimulationMain passes executed per instance
MaxReplacements == 1 \* resets of / extractions into an instance (successive ones count once)
MaxId == 2          \* SimulationEntity ids 1..MaxId
MaxQueued == 3      \* updates in one queue of the prediction world
MaxRealTime == 3    \* real time elapsed over one behaviour, in units of real time
MaxAdvance == 2     \* real time between two frames
MaxBurst == 2       \* UpdateServerTick messages that arrive in one frame
MaxInterval == 1    \* PredictionInterval, in units of real time
MaxClients == 2     \* connections of the server
MaxArrived == 3     \* messages that arrive at the client between two frames
MaxPriority == 1    \* ExtractDespawnPriority, in absolute value
MaxPushes == 34     \* samples pushed between two resets of ServerTickSamples

(* ----------------------------- domains --------------------------------- *)
\* enum SimulationInstance
Instances == {"Server", "ClientMain", "ClientTemplate", "ClientPrediction"}

\* the instances that are held in a SimulationWorld (TemplateWorld, PredictionWorld)
SimulationWorlds == {"ClientTemplate", "ClientPrediction"}

\* the update types registered by the example scheme
UpdateTypes == {"UpdateExampleBox", "DespawnSimulatonEntity"}

SimulationEntity == 1..MaxId

\* Option<T>
None == << >>
Some(x) == << x >>

\* struct ExtractDespawnPriority(pub i32): the priorities that are given
ExtractDespawnPriority == (0 - MaxPriority)..MaxPriority

\* struct ExampleBox { position, velocity }: the payloads that are sent
ExampleBox == [position : {0}, velocity : {1}]

Restrict(f, S) == [x \in S |-> f[x]]
Put(f, k, v) == [x \in (DOMAIN f) \cup {k} |-> IF x = k THEN v ELSE f[x]]

(* --------------------------- the update queue -------------------------- *)
\* VecDeque::partition_point(|e| e.tick <= tick): binary search for the first
\* index (0-based) whose element does not satisfy the predicate
RECURSIVE partition_point_from(_, _, _, _)
partition_point_from(q, tick, lo, hi) ==
    IF lo >= hi THEN lo
    ELSE LET mid == lo + ((hi - lo) \div 2)
         IN  IF q[mid + 1].tick <= tick
             THEN partition_point_from(q, tick, mid + 1, hi)
             ELSE partition_point_from(q, tick, lo, mid)

\* the predicate written |e| e.tick < tick
partition_point_before_equals(q, tick) == partition_point_from(q, tick - 1, 0, Len(q))

partition_point(q, tick) == partition_point_from(q, tick, 0, Len(q))

\* WorldUpdateQueue::insert
insert(q, update) ==
    LET index == partition_point(q, update.tick)
    IN  SubSeq(q, 1, index) \o << update >> \o SubSeq(q, index + 1, Len(q))

\* next without the comparison of the front's tick with the current tick
next_any_tick(q, tick) ==
    IF q = << >> THEN [update |-> None, queue |-> q]
    ELSE [update |-> Some(Head(q)), queue |-> Tail(q)]

\* WorldUpdateQueue::next: Some(front) and the popped queue, or None
next(q, tick) ==
    IF q = << >> THEN [update |-> None, queue |-> q]
    ELSE IF Head(q).tick > tick THEN [update |-> None, queue |-> q]
    ELSE [update |-> Some(Head(q)), queue |-> Tail(q)]

(* ------------------------------ the clock ------------------------------ *)
\* the step interval of the scheme, in units of real time
StepInterval == 2

\* SimulationTick::time
time(tick) == StepInterval * tick

\* u32::saturating_sub
saturating_sub(a, b) == IF a >= b THEN a - b ELSE 0

\* Time::new_with(SimulationTime { current_tick, target_tick })
new_with(current_tick, target_tick) ==
    [current_tick |-> current_tick, target_tick |-> target_tick, elapsed |-> 0, delta |-> 0]

\* Time::advance_to(elapsed): the delta is the time advanced by
advance_to(clock, elapsed) ==
    [clock EXCEPT !.delta = elapsed - clock.elapsed, !.elapsed = elapsed]

\* PrivateSimulationTimeExt::from_tick
from_tick(tick) ==
    LET target_time == time(tick)
    IN  advance_to(advance_to(new_with(tick, tick), saturating_sub(target_time, StepInterval)),
                   target_time)

\* extract_time without `*other = self.clone()`
extract_time_not_cloned(self, other) == other

\* PrivateSimulationTimeExt::extract_time: the clock `other` becomes
extract_time(self, other) == [self EXCEPT !.target_tick = other.target_tick]

\* step with `+= 2`
step_by_two(w) ==
    [w EXCEPT !.time = advance_to([@ EXCEPT !.current_tick = @ + 2],
                                  time(w.time.current_tick + 2)),
              !.steps = @ + 1]

\* PrivateSimulationTimeExt::step (and the count of steps taken, a history field)
step(w) ==
    [w EXCEPT !.time = advance_to([@ EXCEPT !.current_tick = @ + 1],
                                  time(w.time.current_tick + 1)),
              !.steps = @ + 1]

\* PrivateSimulationTimeExt::queue_ticks
queue_ticks(w, ticks) == [w EXCEPT !.time.target_tick = @ + ticks]

\* PrivateSimulationTimeExt::clear_target
clear_target(w) == [w EXCEPT !.time.target_tick = w.time.current_tick]

(* ------------------- entities, hooks and commands ---------------------- *)
\* SimulationEntityMap::get
map_get(w, id) == IF id \in DOMAIN w.map THEN Some(w.map[id]) ELSE None

\* SimulationEntity::on_insert: map.insert(id, entity), overwriting
on_insert(w, entity) == [w EXCEPT !.map = Put(@, w.entities[entity].id, entity)]

\* SimulationEntity::on_replace: map.remove(id)
on_replace(w, entity) ==
    [w EXCEPT !.map = Restrict(@, (DOMAIN @) \ {w.entities[entity].id})]

\* commands.spawn((example_box, id)) / commands.spawn(id), when applied
spawn(w, id, example_box) ==
    LET entity == w.next_entity
        w1 == [w EXCEPT !.entities = Put(@, entity, [id |-> id, example_box |-> example_box,
                                                          relation |-> None,
                                                          priority |-> None,
                                                          removed |-> FALSE]),
                        !.next_entity = entity + 1]
    IN  on_insert(w1, entity)

\* commands.entity(e).despawn() / try_despawn(), when applied
despawn(w, entity) ==
    IF entity \notin DOMAIN w.entities THEN w
    ELSE LET w1 == on_replace(w, entity)
         IN  [w1 EXCEPT !.entities = Restrict(@, (DOMAIN @) \ {entity})]

\* commands.entity(e).insert(component), when applied
insert_component(w, entity, example_box) ==
    IF entity \notin DOMAIN w.entities THEN w
    ELSE [w EXCEPT !.entities[entity].example_box = Some(example_box)]

\* commands.entity(e).insert(RemovedSimulationEntity) / .remove::<RemovedSimulationEntity>()
set_removed(w, entity, removed) ==
    IF entity \notin DOMAIN w.entities THEN w
    ELSE [w EXCEPT !.entities[entity].removed = removed]

\* commands.entity(e).insert(ExtractDespawnPriority(priority)), when applied
insert_priority(w, entity, priority) ==
    IF entity \notin DOMAIN w.entities THEN w
    ELSE [w EXCEPT !.entities[entity].priority = Some(priority)]

\* commands.entity(e).insert(C::from(target)) of a Relationship C, when applied
insert_relation(w, entity, target) ==
    IF entity \notin DOMAIN w.entities THEN w
    ELSE [w EXCEPT !.entities[entity].relation = Some(target)]

\* commands.entity(e).remove::<C>() of a Relationship C, when applied
remove_relation(w, entity) ==
    IF entity \notin DOMAIN w.entities THEN w
    ELSE [w EXCEPT !.entities[entity].relation = None]

apply_command(w, c) ==
    CASE c.cmd = "spawn" -> spawn(w, c.id, c.example_box)
      [] c.cmd = "insert_relation" -> insert_relation(w, c.entity, c.target)
      [] c.cmd = "remove_relation" -> remove_relation(w, c.entity)
      [] c.cmd = "despawn" -> despawn(w, c.entity)
      [] c.cmd = "insert" -> insert_component(w, c.entity, c.example_box)
      [] c.cmd = "mark" -> set_removed(w, c.entity, TRUE)
      [] c.cmd = "unmark" -> set_removed(w, c.entity, FALSE)

\* a sync point: the queued commands are applied in order
RECURSIVE apply_commands(_, _)
apply_commands(w, cmds) ==
    IF cmds = << >> THEN w
    ELSE apply_commands(apply_command(w, Head(cmds)), Tail(cmds))

(* ------------------------- history (not program state) ----------------- *)
\* marks, in the log of executed ticks, a replacement of the clock by a reset
\* or by an extraction
ClockReplaced == 0 - 1

\* one marker stands for all the replacements between two executed ticks
LogClockReplaced(log) ==
    IF log # << >> /\ log[Len(log)] = ClockReplaced THEN log ELSE Append(log, ClockReplaced)

\* the warning of drain with the operands of saturating_sub exchanged
drain_warning_exchanged(update, current_tick) ==
    IF update.tick # current_tick
    THEN Some(saturating_sub(update.tick, current_tick))
    ELSE None

\* ReadyUpdates::drain: the number of ticks in its `warn!("Returned an update
\* .. late by {} ticks ..")`, None when it does not warn
drain_warning(update, current_tick) ==
    IF update.tick # current_tick
    THEN Some(saturating_sub(current_tick, update.tick))
    ELSE None

\* an update handed to its executor by ReadyUpdates::drain in world w at `at`,
\* with the warning of drain and whether the id it names is in the
\* SimulationEntityMap at that moment; `applied` is set by the executor
Yielded(w, update, type, at) ==
    [uid |-> update.uid, type |-> type, tick |-> update.tick, late |-> update.late, at |-> at,
     reported |-> drain_warning(update, at),
     known |-> map_get(w, update.update.entity) # None,
     applied |-> FALSE]

\* the executor has applied the update that drain yielded last: it wrote to
\* the world or queued a command for it
Applied(w) == [w EXCEPT !.delivered[Len(w.delivered)].applied = TRUE]

(* ----------------------- systems of SimulationUpdate ------------------- *)
\* apply_update_boxes: `for .. in updates.drain()`; the map is read as it was
\* when the system started, spawns are queued as commands
RECURSIVE apply_update_boxes_from(_, _)
apply_update_boxes_from(w, cmds) ==
    LET n == next(w.queue["UpdateExampleBox"], w.time.current_tick)
    IN  IF n.update = None THEN [world |-> w, commands |-> cmds]
        ELSE LET u == n.update[1]
                 w1 == [w EXCEPT !.queue["UpdateExampleBox"] = n.queue,
                                 !.delivered = Append(@, Yielded(w, u, "UpdateExampleBox",
                                                                w.time.current_tick))]
                 found == map_get(w1, u.update.entity)
             IN  IF found # None
                 THEN LET box_entity == found[1]
                      IN  IF box_entity \in DOMAIN w1.entities
                             /\ w1.entities[box_entity].example_box # None
                          THEN apply_update_boxes_from(
                                 [Applied(w1) EXCEPT !.entities[box_entity].example_box =
                                                Some(u.update.example_box)], cmds)
                          ELSE apply_update_boxes_from(w1, cmds)
                 ELSE apply_update_boxes_from(Applied(w1),
                        Append(cmds, [cmd |-> "spawn", id |-> u.update.entity,
                                      example_box |-> Some(u.update.example_box)]))

apply_update_boxes(w) == apply_update_boxes_from(w, << >>)

\* move_boxes: position += velocity * delta, one step interval being the unit
move_boxes(w) ==
    [w EXCEPT !.entities =
        [e \in DOMAIN @ |->
            IF @[e].example_box = None THEN @[e]
            ELSE [@[e] EXCEPT !.example_box =
                    Some([position |-> @[1].position + @[1].velocity,
                          velocity |-> @[1].velocity])]]]

\* apply_despawn_simulation_entities: `map.get(entity).ok_or(..)?` returns from
\* the system at the first id that is not in the map; what drain has not
\* yielded yet stays in the queue
RECURSIVE apply_despawn_simulation_entities_from(_, _)
apply_despawn_simulation_entities_from(w, cmds) ==
    LET n == next(w.queue["DespawnSimulatonEntity"], w.time.current_tick)
    IN  IF n.update = None THEN [world |-> w, commands |-> cmds]
        ELSE LET u == n.update[1]
                 w1 == [w EXCEPT !.queue["DespawnSimulatonEntity"] = n.queue,
                                 !.delivered = Append(@, Yielded(w, u, "DespawnSimulatonEntity",
                                                                w.time.current_tick))]
                 found == map_get(w1, u.update.entity)
             IN  IF found = None
                 THEN [world |-> w1, commands |-> cmds]
                 ELSE apply_despawn_simulation_entities_from(Applied(w1),
                        Append(cmds, [cmd |-> "despawn", entity |-> found[1]]))

apply_despawn_simulation_entities(w) == apply_despawn_simulation_entities_from(w, << >>)

\* The SimulationUpdate schedule.  (apply_update_boxes, move_boxes) are chained,
\* with a sync point between them; apply_despawn_simulation_entities is in
\* DespawnSimulationEntities, which is ordered after UpdateComponentSystems only,
\* so it runs either before that sync point (its commands are applied there) or
\* after it (its commands are applied at the end of the schedule).
SimulationUpdate(w, despawn_first) ==
    LET ran ==
          IF despawn_first
          THEN LET d == apply_despawn_simulation_entities(w)
                   a == apply_update_boxes(d.world)
               IN  move_boxes(apply_commands(a.world, a.commands \o d.commands))
          ELSE LET a == apply_update_boxes(w)
                   m == move_boxes(apply_commands(a.world, a.commands))
                   d == apply_despawn_simulation_entities(m)
               IN  apply_commands(d.world, d.commands)
    IN  [ran EXCEPT !.update_runs = @ + 1]

\* history: world.run_schedule(label) was called
run_schedule(w, label) == [w EXCEPT !.schedules = Append(@, label)]

\* run_simulation_main: SimulationPreUpdate, SimulationUpdate, SimulationPostUpdate
\* (no system of the modelled scheme is in the pre- and post-update schedules)
run_simulation_main(w, despawn_first) ==
    run_schedule(
        run_schedule(SimulationUpdate(run_schedule(w, "SimulationPreUpdate"), despawn_first),
                     "SimulationUpdate"),
        "SimulationPostUpdate")

\* run_simulation_startup_main: it runs the same three schedules
run_simulation_startup_main(w, despawn_first) ==
    run_schedule(
        run_schedule(SimulationUpdate(run_schedule(w, "SimulationPreUpdate"), despawn_first),
                     "SimulationUpdate"),
        "SimulationPostUpdate")

\* world.run_schedule(SimulationMain), and the log of the tick it executed
SimulationMain(w, despawn_first) ==
    LET ran == run_simulation_main(w, despawn_first)
    IN  [ran EXCEPT !.passes = Append(@, w.time.current_tick)]

\* the loop leaving on `current_tick > target_tick`
RECURSIVE run_simulation_schedule_past_target(_, _)
run_simulation_schedule_past_target(w, despawn_first) ==
    IF w.time.current_tick > w.time.target_tick THEN w
    ELSE run_simulation_schedule_past_target(step(SimulationMain(w, despawn_first)),
                                             despawn_first)

\* run_simulation_schedule
RECURSIVE run_simulation_schedule(_, _)
run_simulation_schedule(w, despawn_first) ==
    IF w.time.current_tick >= w.time.target_tick THEN w
    ELSE run_simulation_schedule(step(SimulationMain(w, despawn_first)), despawn_first)

(* ------------------------------ extraction ----------------------------- *)
\* the entities of a query, in the order of their handles
RECURSIVE in_order(_)
in_order(S) ==
    IF S = {} THEN << >>
    ELSE LET first == CHOOSE x \in S : \A y \in S : x <= y
         IN  << first >> \o in_order(S \ {first})

\* mark_removed_simulation_entities
mark_removed_simulation_entities(w) ==
    LET entity_q == in_order(DOMAIN w.entities)
    IN  [n \in DOMAIN entity_q |-> [cmd |-> "mark", entity |-> entity_q[n]]]

\* extract_simulation_entities: the local map is read, the marker removals and
\* the spawns are commands
extract_simulation_entities(w, source_world) ==
    LET entity_q == in_order(DOMAIN source_world.entities)
    IN  [n \in DOMAIN entity_q |->
            LET simulation_entity == source_world.entities[entity_q[n]].id
                found == map_get(w, simulation_entity)
            IN  IF found # None
                THEN [cmd |-> "unmark", entity |-> found[1]]
                ELSE [cmd |-> "spawn", id |-> simulation_entity, example_box |-> None]]

\* `**priority.unwrap_or(&default())` of an Option<&ExtractDespawnPriority>
priority_or_default(w, entity) ==
    IF w.entities[entity].priority = None THEN 0 ELSE w.entities[entity].priority[1]

\* despawn_order.binary_search_by(|&(probe, _)| probe.cmp(&priority)) of the
\* standard library, as the index of `Ok(index) | Err(index)` (from 0): the
\* slice from base is halved while it holds more than one element
RECURSIVE binary_search_from(_, _, _, _)
binary_search_from(despawn_order, priority, base, size) ==
    IF size > 1
    THEN LET half == size \div 2
             mid == base + half
         IN  binary_search_from(despawn_order, priority,
                                IF despawn_order[mid + 1].priority > priority THEN base ELSE mid,
                                size - half)
    ELSE IF despawn_order[base + 1].priority < priority THEN base + 1 ELSE base

binary_search_by(despawn_order, priority) ==
    IF despawn_order = << >> THEN 0
    ELSE binary_search_from(despawn_order, priority, 0, Len(despawn_order))

\* Vec::insert(index, element), with index from 0
Vec_insert(vec, index, element) ==
    SubSeq(vec, 1, index) \o << element >> \o SubSeq(vec, index + 1, Len(vec))

\* the first loop of despawn_removed_simulation_entities: every marked
\* entity is inserted into despawn_order where the binary search points
RECURSIVE despawn_order_of(_, _, _)
despawn_order_of(w, entity_q, despawn_order) ==
    IF entity_q = << >> THEN despawn_order
    ELSE LET priority == priority_or_default(w, Head(entity_q))
             index == binary_search_by(despawn_order, priority)
         IN  despawn_order_of(w, Tail(entity_q),
                 Vec_insert(despawn_order, index,
                            [priority |-> priority, entity |-> Head(entity_q)]))

\* despawn_removed_simulation_entities: the despawns it queues
despawn_removed_simulation_entities(w) ==
    LET entity_q == in_order({e \in DOMAIN w.entities : w.entities[e].removed})
        despawn_order == despawn_order_of(w, entity_q, << >>)
    IN  [n \in DOMAIN despawn_order |->
            [cmd |-> "despawn", entity |-> despawn_order[n].entity]]

\* extract_component::<ExampleBox>: `map.get(..).ok_or(..)?` returns from the
\* system at the first source id that is not in the local map; a component the
\* local entity has is written in place, a missing one is inserted by a command
RECURSIVE extract_component_from(_, _, _, _)
extract_component_from(w, source_world, entity_q, cmds) ==
    IF entity_q = << >> THEN [world |-> w, commands |-> cmds]
    ELSE LET source == source_world.entities[Head(entity_q)]
             found == map_get(w, source.id)
         IN  IF found = None THEN [world |-> w, commands |-> cmds]
             ELSE LET local_entity == found[1]
                  IN  IF w.entities[local_entity].example_box # None
                      THEN extract_component_from(
                             [w EXCEPT !.entities[local_entity].example_box = source.example_box],
                             source_world, Tail(entity_q), cmds)
                      ELSE extract_component_from(w, source_world, Tail(entity_q),
                             Append(cmds, [cmd |-> "insert", entity |-> local_entity,
                                           example_box |-> source.example_box[1]]))

extract_component(w, source_world) ==
    extract_component_from(w, source_world,
        in_order({e \in DOMAIN source_world.entities :
                    source_world.entities[e].example_box # None}), << >>)

\* the local world after the first two systems of the ExtractSimulation
\* schedule: every entity is marked, the ones of the source are unmarked or
\* spawned
ExtractedSimulationEntities(w, source_world) ==
    LET marked == apply_commands(w, mark_removed_simulation_entities(w))
    IN  apply_commands(marked, extract_simulation_entities(marked, source_world))

\* history: the priorities of the entities that an extraction despawns, in
\* the order of their despawn commands
DespawnedPriorities(w, source_world) ==
    LET extracted == ExtractedSimulationEntities(w, source_world)
        cmds == despawn_removed_simulation_entities(extracted)
    IN  [n \in DOMAIN cmds |-> priority_or_default(extracted, cmds[n].entity)]

\* The ExtractSimulation schedule (single threaded): mark, extract the
\* entities, despawn the ones still marked, then ExtractComponents
ExtractSimulation(w, source_world) ==
    LET extracted == ExtractedSimulationEntities(w, source_world)
        despawned == apply_commands(extracted, despawn_removed_simulation_entities(extracted))
        c == extract_component(despawned, source_world)
    IN  apply_commands(c.world, c.commands)

\* extract_relation without the removal of a relation the source entity lacks
RECURSIVE extract_relation_kept_from(_, _, _, _)
extract_relation_kept_from(w, source_world, entity_q, cmds) ==
    IF entity_q = << >> THEN cmds
    ELSE LET source == source_world.entities[Head(entity_q)]
             found == map_get(w, source.id)
         IN  IF found = None THEN cmds
             ELSE LET local_relation_entity == found[1]
                  IN  IF source.relation = None
                      THEN extract_relation_kept_from(w, source_world, Tail(entity_q), cmds)
                      ELSE LET source_target_entity == source.relation[1]
                               target == IF source_target_entity \in DOMAIN source_world.entities
                                         THEN map_get(w, source_world.entities[source_target_entity].id)
                                         ELSE None
                           IN  IF target = None THEN cmds
                               ELSE IF w.entities[local_relation_entity].relation = target
                               THEN extract_relation_kept_from(w, source_world, Tail(entity_q), cmds)
                               ELSE extract_relation_kept_from(w, source_world, Tail(entity_q),
                                      Append(cmds, [cmd |-> "insert_relation",
                                                    entity |-> local_relation_entity,
                                                    target |-> target[1]]))

\* extract_relation::<C>: the commands it queues. A source entity without the
\* relation has it removed from its local entity; a relation is inserted
\* unless the local entity already relates to the local target; a `?` on a
\* missing map entry or on a target without an id returns from the system
RECURSIVE extract_relation_from(_, _, _, _)
extract_relation_from(w, source_world, entity_q, cmds) ==
    IF entity_q = << >> THEN cmds
    ELSE LET source == source_world.entities[Head(entity_q)]
             found == map_get(w, source.id)
         IN  IF found = None THEN cmds
             ELSE LET local_relation_entity == found[1]
                  IN  IF source.relation = None
                      THEN extract_relation_from(w, source_world, Tail(entity_q),
                             IF w.entities[local_relation_entity].relation # None
                             THEN Append(cmds, [cmd |-> "remove_relation",
                                                entity |-> local_relation_entity])
                             ELSE cmds)
                      ELSE LET source_target_entity == source.relation[1]
                               target == IF source_target_entity \in DOMAIN source_world.entities
                                         THEN map_get(w, source_world.entities[source_target_entity].id)
                                         ELSE None
                           IN  IF target = None THEN cmds
                               ELSE IF w.entities[local_relation_entity].relation = target
                               THEN extract_relation_from(w, source_world, Tail(entity_q), cmds)
                               ELSE extract_relation_from(w, source_world, Tail(entity_q),
                                      Append(cmds, [cmd |-> "insert_relation",
                                                    entity |-> local_relation_entity,
                                                    target |-> target[1]]))

extract_relation(w, source_world) ==
    extract_relation_from(w, source_world, in_order(DOMAIN source_world.entities), << >>)

\* extract with the whole source clock cloned into the target, as
\* extract_predicton_world does
extract_cloning_clock(source_world, target_world) ==
    LET timed == [target_world EXCEPT !.time = source_world.time,
                                      !.passes = LogClockReplaced(@)]
    IN  ExtractSimulation(timed, source_world)

\* SimulationWorld::extract, on the target world
extract(source_world, target_world) ==
    LET timed == [target_world EXCEPT !.time = extract_time(source_world.time, @),
                                      !.passes = LogClockReplaced(@)]
    IN  ExtractSimulation(timed, source_world)

(* -------------------------------- reset -------------------------------- *)
\* the entities taken from the SimulationEntityMap instead of the query
reset_simulation_entities_of_map(w) ==
    LET entity_q == in_order({w.map[id] : id \in DOMAIN w.map})
    IN  [n \in DOMAIN entity_q |-> [cmd |-> "despawn", entity |-> entity_q[n]]]

\* reset_simulation_entities
reset_simulation_entities(w) ==
    LET entity_q == in_order(DOMAIN w.entities)
    IN  [n \in DOMAIN entity_q |-> [cmd |-> "despawn", entity |-> entity_q[n]]]

\* the ResetSimulation schedule
ResetSimulation(w) == apply_commands(w, reset_simulation_entities(w))

\* SimulationWorld::reset
reset(w, tick) ==
    ResetSimulation([w EXCEPT !.time = from_tick(tick),
                              !.passes = LogClockReplaced(@)])

(* ------------------------------ building ------------------------------- *)
\* SimulationPlugin::build: the world of an instance before anything ran
NewWorld ==
    [built |-> FALSE,
     time |-> new_with(0, 0),
     queue |-> [T \in UpdateTypes |-> << >>],
     entities |-> << >>,
     map |-> << >>,
     next_entity |-> 1,
     delivered |-> << >>,
     passes |-> << >>,
     update_runs |-> 0,
     schedules |-> << >>,
     steps |-> 0]

\* TemplateWorld::build runs SimulationStartupMain; the other instances are
\* built by adding SimulationPlugin only
build(w, instance, despawn_first) ==
    LET plugged == [w EXCEPT !.built = TRUE]
    IN  IF instance = "ClientTemplate"
        THEN run_simulation_startup_main(plugged, despawn_first)
        ELSE plugged

\* SimulationWorld::run
run(w, execute_ticks, despawn_first) ==
    run_simulation_schedule(queue_ticks(w, execute_ticks), despawn_first)

(* ---------------------- the main world of the client ------------------- *)
\* drive_simulation_time with the target assigned from the estimate
drive_simulation_time_assigned(w, target_time) ==
    [w EXCEPT !.time.target_tick = target_time]

\* drive_simulation_time: the loop queues one tick at a time while another
\* step interval fits below target_time (the estimated server time plus the
\* prediction interval, counted here in step intervals, rounded down)
RECURSIVE drive_simulation_time(_, _)
drive_simulation_time(w, target_time) ==
    IF w.time.target_tick + 1 > target_time THEN w
    ELSE drive_simulation_time(queue_ticks(w, 1), target_time)

(* ----------------- the estimate of the server time --------------------- *)
\* ServerTickSamples::SERVER_TIME_ESTIMATE_SAMPLES
SERVER_TIME_ESTIMATE_SAMPLES == 32

\* ServerTickSamples::default
NewServerTickSamples == [latest |-> 0, samples |-> << >>]

\* the loop of push dropping the newest samples
pop_back_over(samples, limit) ==
    IF Len(samples) > limit THEN SubSeq(samples, 1, limit) ELSE samples

\* the loop of push: while samples.len() > SERVER_TIME_ESTIMATE_SAMPLES, pop_front
RECURSIVE pop_front_over(_, _)
pop_front_over(samples, limit) ==
    IF Len(samples) > limit THEN pop_front_over(Tail(samples), limit) ELSE samples

\* ServerTickSamples::push
ServerTickSamples_push(self, real_time, tick) ==
    [latest |-> tick,
     samples |-> pop_front_over(Append(self.samples, [received_time |-> real_time, tick |-> tick]),
                                SERVER_TIME_ESTIMATE_SAMPLES)]

\* ServerTickSamples::reset without `*self = default()`
ServerTickSamples_reset_kept(self, current_time, tick) ==
    ServerTickSamples_push(self, current_time, tick)

\* ServerTickSamples::reset
ServerTickSamples_reset(self, current_time, tick) ==
    ServerTickSamples_push(NewServerTickSamples, current_time, tick)

\* ServerTickSamples::latest
latest(self) == self.latest

\* the sum of sample_time + elapsed over the samples from the n-th on
RECURSIVE estimated_sum(_, _, _)
estimated_sum(samples, real_time, n) ==
    IF n > Len(samples) THEN 0
    ELSE time(samples[n].tick) + (real_time - samples[n].received_time)
         + estimated_sum(samples, real_time, n + 1)

\* ServerTickSamples::estimated_time: checked_div(len).unwrap_or_default()
estimated_time(self, real_time) ==
    IF Len(self.samples) = 0 THEN 0
    ELSE estimated_sum(self.samples, real_time, 1) \div Len(self.samples)

\* receive_time_updates: every UpdateServerTick of the frame is pushed
RECURSIVE receive_time_updates(_, _, _)
receive_time_updates(tick_samples, real_time, messages) ==
    IF messages = << >> THEN tick_samples
    ELSE receive_time_updates(ServerTickSamples_push(tick_samples, real_time, Head(messages)),
                              real_time, Tail(messages))

\* PredictionRates::default
PredictionRates == [template |-> 3, prediction |-> 5]

\* PredictionBudget::default
NewPredictionBudget ==
    [template |-> 0, prediction |-> 0, template_overstep |-> 0, prediction_overstep |-> 0]

\* `while overstep > 1. { overstep -= 1.; budget += 1 }`, as << overstep, budget >>
RECURSIVE overstep_to_budget(_, _)
overstep_to_budget(overstep, budget) ==
    IF overstep > 1 THEN overstep_to_budget(overstep - 1, budget + 1)
    ELSE << overstep, budget >>

\* the budget part of drive_simulation_time after `queued` ticks were queued
drive_prediction_budget(budget, queued) ==
    LET template == overstep_to_budget(budget.template_overstep
                                         + queued * PredictionRates.template, 0)
        prediction == overstep_to_budget(budget.prediction_overstep
                                           + queued * PredictionRates.prediction, 0)
    IN  [template |-> template[2], prediction |-> prediction[2],
         template_overstep |-> template[1], prediction_overstep |-> prediction[1]]

\* history: the samples pushed since the last ServerTickSamples::reset, that
\* of the reset included, after the given ticks were pushed
RECURSIVE Pushed(_, _, _)
Pushed(pushed, real_time, ticks) ==
    IF ticks = << >> THEN pushed
    ELSE Pushed(Append(pushed, [received_time |-> real_time, tick |-> Head(ticks)]),
                real_time, Tail(ticks))

\* the resources of the client app before the first frame
NewClientApp ==
    [tick_samples |-> NewServerTickSamples,
     budget |-> NewPredictionBudget,
     real_time |-> 0,
     received |-> 0,    \* messages of the server's stream that have arrived
     pushed |-> << >>,
     \* a system of the client app panicked, which ends the app
     panicked |-> FALSE,
     overflow_checks |-> "unknown",
     \* ServerWorld::new: the ParallelWorld that holds world["ClientTemplate"]
     server_world |-> [state |-> "Idle", finished |-> FALSE, reset |-> Some(0), in_flight |-> 0],
     \* ReceivedMessages<ServerWorldUpdate<T>>: received and not yet drained
     world_updates |-> << >>,
     \* history: the tick of the template world when it was last extracted
     \* into the prediction world
     last_predicted_tick |-> 0]

(* ------------------------- the server app ------------------------------ *)
\* the connections of the server
Clients == 1..MaxClients

\* the messages of the SimulationUpdatesStream
ResetClientSimulation(simulation_tick) ==
    [message |-> "ResetClientSimulation", simulation_tick |-> simulation_tick]
UpdateServerTick(simulation_tick) ==
    [message |-> "UpdateServerTick", simulation_tick |-> simulation_tick]
ServerWorldUpdate(update, include_in_prediction) ==
    [message |-> "ServerWorldUpdate", update |-> update,
     include_in_prediction |-> include_in_prediction]

\* the server app before its first frame: the frame is at its first system
\* set, no connection carries PredictionClient, nothing was sent
NewServerApp ==
    [systems |-> "SendResets",
     clients |-> [c \in Clients |-> [PredictionClient |-> FALSE, Added |-> FALSE,
                                     sent |-> << >>]],
     \* `overstep: Local<Duration>` of drive_simulation_time
     overstep |-> 0,
     \* history: the real time that elapsed over the frames of the server
     real_elapsed |-> 0]

\* messages.write(client_entity, message_id, true, &message) on the shared,
\* ordered stream of the client
write(clients, client_entity, message) ==
    [clients EXCEPT ![client_entity].sent = Append(@, message)]

\* send_simulation_resets: one ResetClientSimulation for every client whose
\* PredictionClient was added since the system ran last
send_simulation_resets(clients, current_tick) ==
    [c \in Clients |->
        IF clients[c].Added
        THEN [write(clients, c, ResetClientSimulation(current_tick))[c] EXCEPT !.Added = FALSE]
        ELSE clients[c]]

\* send_simulation_time_updates sending the tick that follows the pass
send_simulation_time_updates_of_next_tick(clients, current_tick) ==
    [c \in Clients |->
        IF clients[c].PredictionClient
        THEN [clients[c] EXCEPT !.sent = Append(@, UpdateServerTick(current_tick + 1))]
        ELSE clients[c]]

\* send_simulation_time_updates, in SimulationPostUpdate of a pass
send_simulation_time_updates(clients, current_tick) ==
    [c \in Clients |->
        IF clients[c].PredictionClient
        THEN write(clients, c, UpdateServerTick(current_tick))[c]
        ELSE clients[c]]

\* run_simulation_schedule of the server: SimulationPostUpdate, the last
\* schedule of a pass, holds send_simulation_time_updates, which reads the clock
\* before the step that follows the pass
RECURSIVE server_run_simulation_schedule(_, _, _)
server_run_simulation_schedule(w, clients, despawn_first) ==
    IF w.time.current_tick >= w.time.target_tick THEN [world |-> w, clients |-> clients]
    ELSE LET ran == SimulationMain(w, despawn_first)
         IN  server_run_simulation_schedule(
                 step(ran), send_simulation_time_updates(clients, ran.time.current_tick),
                 despawn_first)

(* ------------------- the prediction world of the client ---------------- *)
\* ParallelWorld::new: ParallelWorldState::Idle(world) and a pending reset to
\* time zero.  The World it holds is world["ClientPrediction"]; `finished`
\* tells that the task of a Running world has returned; `in_flight` is a
\* history field, the number of tasks spawned and not yet polled to Idle
NewParallelWorld ==
    [state |-> "Idle", finished |-> FALSE, reset |-> Some(0), in_flight |-> 0]

\* PredictionWorld::new
NewPredictionWorld ==
    [world |-> NewParallelWorld, extracted |-> TRUE, prediction_needed |-> FALSE,
     \* the non-send resource PredictionWorld is in the main world
     in_main_world |-> TRUE]

\* ParallelWorld::update without the `let Idle(world) = .. else return`
ParallelWorld_update_while_running(parallel) ==
    [parallel EXCEPT !.state = "Running", !.finished = FALSE, !.in_flight = @ + 1]

\* ParallelWorld::update: an Idle world is moved into a task that runs it
ParallelWorld_update(parallel) ==
    IF parallel.state # "Idle" THEN parallel
    ELSE [parallel EXCEPT !.state = "Running", !.finished = FALSE, !.in_flight = @ + 1]

\* ParallelWorld::poll / ParallelWorldState::poll
poll(parallel) ==
    IF parallel.state # "Running" THEN parallel
    ELSE IF ~parallel.finished THEN parallel
    ELSE [parallel EXCEPT !.state = "Idle", !.in_flight = @ - 1]

\* ParallelWorld::get without the `let Idle(world) = .. else return None`
get_while_running(parallel, w) ==
    IF parallel.reset # None
    THEN [parallel |-> [parallel EXCEPT !.reset = None],
          world |-> Some(reset(w, parallel.reset[1]))]
    ELSE [parallel |-> parallel, world |-> Some(w)]

\* ParallelWorld::get: None while Running; an Idle world is returned, after
\* the pending reset (the clock replaced, ResetSimulation run) if there is one
get(parallel, w) ==
    IF parallel.state # "Idle" THEN [parallel |-> parallel, world |-> None]
    ELSE IF parallel.reset # None
         THEN [parallel |-> [parallel EXCEPT !.reset = None],
               world |-> Some(reset(w, parallel.reset[1]))]
         ELSE [parallel |-> parallel, world |-> Some(w)]

\* drain_prediction_updates, for one update type: the reconciled updates at
\* the front of PredictionUpdates are removed
RECURSIVE drain_prediction_updates(_, _)
drain_prediction_updates(updates, reconciled_tick) ==
    IF updates # << >> /\ Head(updates).tick < reconciled_tick
    THEN drain_prediction_updates(Tail(updates), reconciled_tick)
    ELSE updates

\* queue_prediction_updates, for one update type: a clone of every update of
\* PredictionUpdates is inserted into the UpdateExecutionQueue
RECURSIVE queue_prediction_updates(_, _)
queue_prediction_updates(updates, queue) ==
    IF updates = << >> THEN queue
    ELSE queue_prediction_updates(Tail(updates), insert(queue, Head(updates)))

(* ------------------------------- state --------------------------------- *)
VARIABLES
    world,      \* world[i]: the World of instance i (with its history fields)
    prediction_world,   \* the PredictionWorld of the client
    prediction_updates, \* prediction_updates[T]: PredictionUpdates<T>
    client_app, \* resources of the client app: ServerTickSamples, PredictionBudget, Time<Real>
    server_app, \* the server app: the position in its frame, its clients and what was sent to each
    next_uid,   \* history: identifies the next WorldUpdate that is inserted
    last_op     \* history: the operation that led to this state

vars == << world, prediction_world, prediction_updates, client_app, server_app, next_uid, last_op >>

Op(name, instance, arg) == [op |-> name, instance |-> instance, arg |-> arg]

Init ==
    /\ world = [i \in Instances |-> NewWorld]
    /\ prediction_world = NewPredictionWorld
    /\ prediction_updates = [T \in UpdateTypes |-> << >>]
    /\ client_app = NewClientApp
    /\ server_app = NewServerApp
    /\ next_uid = 1
    /\ last_op = Op("Init", "Server", 0)

\* the handle and history caps that keep the state space finite
WithinBounds(w) ==
    /\ w.next_entity <= MaxEntity + 1
    /\ Cardinality({n \in DOMAIN w.passes : w.passes[n] # ClockReplaced}) <= MaxPasses
    /\ Cardinality({n \in DOMAIN w.passes : w.passes[n] = ClockReplaced}) <= MaxReplacements

(* ------------------------------ actions -------------------------------- *)
\* the plugin of instance i is built
Build(i) ==
    /\ ~world[i].built
    /\ \E despawn_first \in BOOLEAN :
          world' = [world EXCEPT ![i] = build(@, i, despawn_first)]
    /\ last_op' = Op("Build", i, 0)
    /\ UNCHANGED << prediction_world, prediction_updates, client_app, next_uid, server_app >>

\* the payloads of update type T that name an id of Ids
Payloads(T, Ids) ==
    IF T = "UpdateExampleBox"
    THEN [entity : Ids, example_box : ExampleBox]
    ELSE [entity : Ids]

\* the ticks an update can be stamped with
AllTicks == 0..MaxTick

\* UpdateExecutionQueue<T>::insert(WorldUpdate { tick, update }), with the tick
\* in Ticks and the id in Ids
Insert(i, Ticks, Ids) ==
    /\ world[i].built
    /\ next_uid <= MaxUpdates
    /\ \E T \in UpdateTypes, tick \in Ticks :
         \E payload \in Payloads(T, Ids) :
            world' = [world EXCEPT ![i].queue[T] =
                        insert(@, [tick |-> tick, update |-> payload,
                                   \* history: its identity, and whether it was late when queued
                                   uid |-> next_uid,
                                   late |-> world[i].time.current_tick > tick])]
    /\ next_uid' = next_uid + 1
    /\ last_op' = Op("Insert", i, next_uid)
    /\ UNCHANGED << prediction_world, prediction_updates, client_app, server_app >>

\* drive_simulation_time: time.queue_ticks(1), once or more
QueueTicks(i) ==
    /\ world[i].built
    /\ \E ticks \in 1..MaxTick :
         /\ world[i].time.target_tick + ticks <= MaxTick
         /\ world' = [world EXCEPT ![i] = queue_ticks(@, ticks)]
         /\ last_op' = Op("QueueTicks", i, ticks)
    /\ UNCHANGED << prediction_world, prediction_updates, client_app, next_uid, server_app >>

\* the system run_simulation_schedule in StepSimulationSystems
RunSchedule(i) ==
    /\ world[i].built
    /\ \E despawn_first \in BOOLEAN :
          world' = [world EXCEPT ![i] = run_simulation_schedule(@, despawn_first)]
    /\ WithinBounds(world'[i])
    /\ last_op' = Op("RunSchedule", i, 0)
    /\ UNCHANGED << prediction_world, prediction_updates, client_app, next_uid, server_app >>

\* SimulationWorld::run(execute_ticks)
Run(i) ==
    /\ world[i].built
    /\ \E execute_ticks \in 0..MaxTick, despawn_first \in BOOLEAN :
         /\ world[i].time.target_tick + execute_ticks <= MaxTick
         /\ world' = [world EXCEPT ![i] = run(@, execute_ticks, despawn_first)]
         /\ last_op' = Op("Run", i, execute_ticks)
    /\ WithinBounds(world'[i])
    /\ UNCHANGED << prediction_world, prediction_updates, client_app, next_uid, server_app >>

\* SimulationWorld::reset(tick)
Reset(i) ==
    /\ world[i].built
    /\ \E tick \in 0..MaxTick :
         /\ world' = [world EXCEPT ![i] = reset(@, tick)]
         /\ last_op' = Op("Reset", i, tick)
    /\ WithinBounds(world'[i])
    /\ UNCHANGED << prediction_world, prediction_updates, client_app, next_uid, server_app >>

\* SimulationWorld::extract: world[source] is extracted into world[target]
Extract(source, target) ==
    /\ world[source].built /\ world[target].built
    /\ world' = [world EXCEPT ![target] = extract(world[source], @)]
    /\ WithinBounds(world'[target])
    /\ last_op' = [op |-> "Extract", instance |-> target, arg |-> source,
                   despawned |-> DespawnedPriorities(world[target], world[source])]
    /\ UNCHANGED << prediction_world, prediction_updates, client_app, next_uid, server_app >>

\* Time<SimulationTime>::clear_target
ClearTarget(i) ==
    /\ world[i].built
    /\ world' = [world EXCEPT ![i] = clear_target(@)]
    /\ last_op' = Op("ClearTarget", i, 0)
    /\ UNCHANGED << prediction_world, prediction_updates, client_app, next_uid, server_app >>

\* a system of the simulation spawns an entity with the next id that no
\* entity of the world carries (ids are allocated in increasing order), with or
\* without the extracted component
SpawnSimulationEntity(i) ==
    /\ world[i].built
    /\ \E id \in SimulationEntity \ DOMAIN world[i].map :
         \E example_box \in {None} \cup {Some(b) : b \in ExampleBox} :
            /\ \A unused \in SimulationEntity \ DOMAIN world[i].map : id <= unused
            /\ world' = [world EXCEPT ![i] = spawn(@, id, example_box)]
            /\ last_op' = Op("SpawnSimulationEntity", i, id)
    /\ WithinBounds(world'[i])
    /\ UNCHANGED << prediction_world, prediction_updates, client_app, next_uid, server_app >>

\* a system of the app gives an entity an ExtractDespawnPriority
InsertExtractDespawnPriority(i) ==
    /\ \E entity \in DOMAIN world[i].entities, priority \in ExtractDespawnPriority :
         /\ world[i].entities[entity].priority = None
         /\ world' = [world EXCEPT ![i] = insert_priority(@, entity, priority)]
         /\ last_op' = Op("InsertExtractDespawnPriority", i, entity)
    /\ UNCHANGED << prediction_world, prediction_updates, client_app, next_uid, server_app >>

\* a system of the simulation removes the extracted component from an entity
RemoveComponent(i) ==
    /\ \E entity \in DOMAIN world[i].entities :
         /\ world[i].entities[entity].example_box # None
         /\ world' = [world EXCEPT ![i].entities[entity].example_box = None]
         /\ last_op' = Op("RemoveComponent", i, entity)
    /\ UNCHANGED << prediction_world, prediction_updates, client_app, next_uid, server_app >>

\* a system of the simulation relates an entity to another simulation entity
InsertRelation(i) ==
    /\ \E entity \in DOMAIN world[i].entities :
         \E target \in DOMAIN world[i].entities \ {entity} :
            /\ world[i].entities[entity].relation # Some(target)
            /\ world' = [world EXCEPT ![i] =
                            apply_command(@, [cmd |-> "insert_relation",
                                              entity |-> entity, target |-> target])]
            /\ last_op' = Op("InsertRelation", i, entity)
    /\ UNCHANGED << prediction_world, prediction_updates, client_app, next_uid, server_app >>

\* a system of the simulation removes the relation of an entity
RemoveRelation(i) ==
    /\ \E entity \in DOMAIN world[i].entities :
         /\ world[i].entities[entity].relation # None
         /\ world' = [world EXCEPT ![i] =
                         apply_command(@, [cmd |-> "remove_relation", entity |-> entity])]
         /\ last_op' = Op("RemoveRelation", i, entity)
    /\ UNCHANGED << prediction_world, prediction_updates, client_app, next_uid, server_app >>

\* SimulationWorld::extract in an app that added ExtractSimulationRelationPlugin:
\* extract_relation runs in the ExtractSimulation schedule, after the entities
\* were extracted. The step records how many relations it removed.
ExtractRelations(source, target) ==
    /\ world[source].built /\ world[target].built
    /\ LET extracted == extract(world[source], world[target])
           cmds == extract_relation(extracted, world[source])
       IN  /\ world' = [world EXCEPT ![target] = apply_commands(extracted, cmds)]
           /\ last_op' = Op("ExtractRelations", target,
                            Len(SelectSeq(cmds, LAMBDA c : c.cmd = "remove_relation")))
    /\ WithinBounds(world'[target])
    /\ UNCHANGED << prediction_world, prediction_updates, client_app, next_uid, server_app >>

\* the system drive_simulation_time of the main world, for an estimate of the
\* server time that may be above or below the one of the frame before
DriveSimulationTime ==
    /\ world["ClientMain"].built
    /\ \E target_time \in 0..MaxTick :
         /\ world' = [world EXCEPT !["ClientMain"] = drive_simulation_time(@, target_time)]
         /\ last_op' = Op("DriveSimulationTime", "ClientMain", target_time)
    /\ UNCHANGED << prediction_world, prediction_updates, client_app, next_uid, server_app >>

\* reset_simulations(Some(reset_tick)): the template world, the prediction
\* world and the main world are reset to the tick and the samples restart
\* from it; init_resource leaves the PredictionBudget that exists as it is
ResetSimulations ==
    /\ \A i \in {"ClientMain"} \cup SimulationWorlds : world[i].built
    /\ \E reset_tick \in 0..MaxTick :
         /\ world' = [i \in Instances |->
                         IF i \in {"ClientMain"} \cup SimulationWorlds
                         THEN reset(world[i], reset_tick) ELSE world[i]]
         /\ client_app' = [client_app EXCEPT
                              !.tick_samples =
                                  ServerTickSamples_reset(@, client_app.real_time, reset_tick),
                              !.pushed = Pushed(<< >>, client_app.real_time, << reset_tick >>)]
         /\ last_op' = Op("ResetSimulations", "ClientMain", reset_tick)
    /\ \A i \in Instances : WithinBounds(world'[i])
    /\ UNCHANGED << prediction_world, prediction_updates, next_uid, server_app >>

\* commands.entity(client).insert(PredictionClient), by a system or observer of
\* the user at any point of the server frame
InsertPredictionClient(c) ==
    /\ ~server_app.clients[c].PredictionClient
    /\ server_app' = [server_app EXCEPT !.clients[c].PredictionClient = TRUE,
                                        !.clients[c].Added = TRUE]
    /\ last_op' = Op("InsertPredictionClient", "Server", c)
    /\ UNCHANGED << world, prediction_world, prediction_updates, client_app, next_uid >>

\* the system send_simulation_resets, in ServerSimulationSystems::SendResets
SendSimulationResets ==
    /\ world["Server"].built
    /\ server_app.systems = "SendResets"
    /\ server_app' = [server_app EXCEPT
                         !.systems = "QueueUpdates",
                         !.clients = send_simulation_resets(server_app.clients,
                                        world["Server"].time.current_tick)]
    /\ last_op' = Op("SendSimulationResets", "Server", 0)
    /\ UNCHANGED << world, prediction_world, prediction_updates, client_app, next_uid >>

\* WorldUpdateSender::write_now to a client that carries PredictionClient, by a
\* system of the user in ServerSimulationSystems::QueueUpdates
WriteNow(c) ==
    /\ server_app.systems = "QueueUpdates"
    /\ server_app.clients[c].PredictionClient
    /\ next_uid <= MaxUpdates
    /\ \E T \in UpdateTypes :
         \E payload \in Payloads(T, {1}) :
            server_app' = [server_app EXCEPT !.clients =
                write(@, c, ServerWorldUpdate(
                               [tick |-> world["Server"].time.current_tick,
                                update |-> payload, type |-> T, uid |-> next_uid],
                               FALSE))]
    /\ next_uid' = next_uid + 1
    /\ last_op' = Op("WriteNow", "Server", next_uid)
    /\ UNCHANGED << world, prediction_world, prediction_updates, client_app >>

\* the system drive_simulation_time of the server, which ends QueueUpdates:
\* one tick is queued for every step interval of real time that passed
ServerDriveSimulationTime ==
    /\ server_app.systems = "QueueUpdates"
    /\ \E ticks \in 0..MaxTick :
         /\ world["Server"].time.target_tick + ticks <= MaxTick
         /\ world' = [world EXCEPT !["Server"] = queue_ticks(@, ticks)]
         /\ last_op' = Op("ServerDriveSimulationTime", "Server", ticks)
    /\ server_app' = [server_app EXCEPT !.systems = "StepSimulationSystems"]
    /\ UNCHANGED << prediction_world, prediction_updates, client_app, next_uid >>

\* the loop of the server's drive_simulation_time leaving on
\* `*overstep <= S::step_interval()`
RECURSIVE server_drive_simulation_time_late(_, _)
server_drive_simulation_time_late(w, overstep) ==
    IF overstep <= StepInterval THEN [world |-> w, overstep |-> overstep]
    ELSE server_drive_simulation_time_late(queue_ticks(w, 1), overstep - StepInterval)

\* the loop of the server's drive_simulation_time, entered with the frame's
\* delta added to the overstep: a tick is queued for every step interval
\* that is taken from the overstep
RECURSIVE server_drive_simulation_time(_, _)
server_drive_simulation_time(w, overstep) ==
    IF overstep < StepInterval THEN [world |-> w, overstep |-> overstep]
    ELSE server_drive_simulation_time(queue_ticks(w, 1), overstep - StepInterval)

\* a frame's real time, up to MaxAdvance step intervals
FrameDeltas == 0..(MaxAdvance * StepInterval)

\* the system drive_simulation_time of the server in a frame whose real time
\* delta is known.  The step records the delta, the overstep it found and the
\* ticks it queued.
ServerDriveRealTime ==
    /\ server_app.systems = "QueueUpdates"
    /\ \E delta \in FrameDeltas :
         LET driven == server_drive_simulation_time(world["Server"],
                                                    server_app.overstep + delta)
         IN  /\ driven.world.time.target_tick <= MaxTick
             /\ world' = [world EXCEPT !["Server"] = driven.world]
             /\ server_app' = [server_app EXCEPT !.systems = "StepSimulationSystems",
                                                 !.overstep = driven.overstep,
                                                 !.real_elapsed = @ + delta]
             /\ last_op' = Op("ServerDriveRealTime", "Server",
                              [delta |-> delta, overstep |-> server_app.overstep,
                               queued |-> driven.world.time.target_tick
                                            - world["Server"].time.target_tick])
    /\ UNCHANGED << prediction_world, prediction_updates, client_app, next_uid >>

\* run_simulation_schedule of the server in StepSimulationSystems, with
\* send_simulation_time_updates in the SimulationPostUpdate of every pass
ServerStepSimulation ==
    /\ server_app.systems = "StepSimulationSystems"
    /\ \E despawn_first \in BOOLEAN :
         LET ran == server_run_simulation_schedule(world["Server"], server_app.clients,
                                                   despawn_first)
         IN  /\ world' = [world EXCEPT !["Server"] = ran.world]
             /\ server_app' = [server_app EXCEPT !.systems = "SendResets",
                                                 !.clients = ran.clients]
             /\ last_op' = Op("ServerStepSimulation", "Server",
                              ran.world.time.current_tick - world["Server"].time.current_tick)
    /\ WithinBounds(world'["Server"])
    /\ UNCHANGED << prediction_world, prediction_updates, client_app, next_uid >>

\* the ticks from + 1 .. from + n, in order
RECURSIVE ticks_after(_, _)
ticks_after(from, n) == IF n = 0 THEN << >> ELSE << from + 1 >> \o ticks_after(from + 1, n - 1)

\* `*desired_tick - *current_tick` on u32 in a build with overflow checks
\* (the default of a debug build): the subtraction panics when it underflows
run_template_world_panics(w, tick_samples) ==
    latest(tick_samples) < w.time.current_tick

\* the overflow checks of the build, which the model learns at the first
\* subtraction that underflows ("unknown" before it)
OverflowChecks(underflows) ==
    IF ~underflows \/ client_app.overflow_checks # "unknown" THEN {client_app.overflow_checks}
    ELSE {"on", "off"}

\* run_template_world, as << template world, budget >>; without overflow
\* checks (the default of a release build) the u32 subtraction wraps: the
\* difference is then 2^32 - (current_tick - latest), which is not zero and
\* is above every budget that fits the bounds, so that desired_ticks.min(
\* budget.template) is the budget
run_template_world(w, tick_samples, budget, despawn_first) ==
    LET wraps == latest(tick_samples) < w.time.current_tick
        desired_ticks == latest(tick_samples) - w.time.current_tick
        execute_ticks == IF ~wraps /\ desired_ticks < budget.template THEN desired_ticks
                         ELSE budget.template
    IN  IF desired_ticks = 0 THEN << w, budget >>
        ELSE << run(w, execute_ticks, despawn_first),
                [budget EXCEPT !.template = @ - execute_ticks] >>

\* the messages of one type in a batch of arrived messages, in order
ReceivedMessages(batch, message) == SelectSeq(batch, LAMBDA m : m.message = message)

\* the simulation_tick fields of a sequence of messages
RECURSIVE simulation_ticks(_)
simulation_ticks(messages) ==
    IF messages = << >> THEN << >>
    ELSE << Head(messages).simulation_tick >> \o simulation_ticks(Tail(messages))

\* receive_reset_simulations: the tick of the last ResetClientSimulation, if any
receive_reset_simulations(messages) ==
    IF messages = << >> THEN None ELSE Some(messages[Len(messages)].simulation_tick)

\* receive_world_updates::<T> for every T: the updates are inserted into the
\* queue of the template world (with the history fields of a queued update)
RECURSIVE receive_world_updates(_, _)
receive_world_updates(w, messages) ==
    IF messages = << >> THEN w
    ELSE LET update == Head(messages).update
         IN  receive_world_updates(
                 [w EXCEPT !.queue[update.type] =
                     insert(@, [tick |-> update.tick, update |-> update.update,
                                uid |-> update.uid,
                                late |-> w.time.current_tick > update.tick])],
                 Tail(messages))

\* one frame of the client schedule on the messages that arrived from the
\* server since the frame before, over an ordered reliable stream.
\* reset_simulations is first; receive_time_updates and drive_simulation_time
\* are both in ReceiveTime, in either order; the main world runs; the template
\* world runs.  receive_world_updates::<T> is added to the schedule outside
\* every set, so it runs before or after run_template_world.  `interval` is
\* the PredictionInterval, `receive_first` the order of the two systems of
\* ReceiveTime.  When the subtraction of run_template_world underflows, a
\* build with overflow checks panics there, which ends the frame and the app;
\* a build without them goes on with the wrapped difference.
ClientFrameOfStream(c, interval, receive_first) ==
    /\ \A i \in {"ClientMain"} \cup SimulationWorlds : world[i].built
    /\ ~client_app.panicked
    /\ \E advance \in 0..MaxAdvance, arrived \in 0..MaxArrived,
          updates_first \in BOOLEAN, despawn_first \in BOOLEAN :
         LET real_time == client_app.real_time + advance
             batch == SubSeq(server_app.clients[c].sent, client_app.received + 1,
                             client_app.received + arrived)
             reset_tick == receive_reset_simulations(
                               ReceivedMessages(batch, "ResetClientSimulation"))
             Resetting(i) == reset_tick # None /\ i \in {"ClientMain"} \cup SimulationWorlds
             after_reset == [i \in Instances |->
                                IF Resetting(i) THEN reset(world[i], reset_tick[1])
                                ELSE world[i]]
             samples == IF reset_tick = None THEN client_app.tick_samples
                        ELSE ServerTickSamples_reset(client_app.tick_samples, real_time,
                                                     reset_tick[1])
             ticks == simulation_ticks(ReceivedMessages(batch, "UpdateServerTick"))
             received == receive_time_updates(samples, real_time, ticks)
             server_time == IF receive_first THEN received ELSE samples
             target_time == estimated_time(server_time, real_time) + interval
             driven == drive_simulation_time(after_reset["ClientMain"],
                                             target_time \div StepInterval)
             budget == drive_prediction_budget(client_app.budget,
                          driven.time.target_tick - after_reset["ClientMain"].time.target_tick)
             updates == ReceivedMessages(batch, "ServerWorldUpdate")
             queued == IF updates_first
                       THEN receive_world_updates(after_reset["ClientTemplate"], updates)
                       ELSE after_reset["ClientTemplate"]
             underflows == run_template_world_panics(queued, received)
         IN  /\ real_time <= MaxRealTime
             /\ client_app.received + arrived <= Len(server_app.clients[c].sent)
             /\ \E overflow_checks \in OverflowChecks(underflows) :
                  LET panics == underflows /\ overflow_checks = "on"
                      template == IF panics THEN << queued, budget >>
                                  ELSE run_template_world(queued, received, budget,
                                                          despawn_first)
                      executed == template[1].time.current_tick - queued.time.current_tick
                  IN  /\ world' = [after_reset EXCEPT
                                      !["ClientMain"] = run_simulation_schedule(driven,
                                                                                despawn_first),
                                      !["ClientTemplate"] =
                                          IF updates_first \/ panics THEN template[1]
                                          ELSE receive_world_updates(template[1], updates)]
                      /\ client_app' = [client_app EXCEPT
                                           !.tick_samples = received, !.budget = template[2],
                                           !.real_time = real_time,
                                           !.received = @ + arrived,
                                           !.panicked = panics,
                                           !.overflow_checks = overflow_checks,
                                           !.pushed = Pushed(IF reset_tick = None THEN @
                                                             ELSE << >>, real_time,
                                                             (IF reset_tick = None THEN << >>
                                                              ELSE reset_tick) \o ticks)]
                      /\ last_op' = Op("ClientFrameOfStream", "ClientMain",
                                       [arrived |-> arrived, updates_first |-> updates_first,
                                        \* what run_template_world read and what it executed
                                        latest |-> latest(received),
                                        current_tick |-> queued.time.current_tick,
                                        budget |-> budget.template,
                                        executed |-> executed])
    /\ \A i \in Instances : WithinBounds(world'[i])
    /\ UNCHANGED << prediction_world, prediction_updates, server_app, next_uid >>

\* the system receive_time_updates alone: the UpdateServerTick messages of the
\* ticks that follow the latest one are received
ReceiveTimeUpdates ==
    \E burst \in 1..MaxBurst :
        LET messages == ticks_after(latest(client_app.tick_samples), burst)
        IN  /\ Len(client_app.pushed) + burst <= MaxPushes
            /\ client_app' = [client_app EXCEPT
                                 !.tick_samples = receive_time_updates(@, client_app.real_time,
                                                                       messages),
                                 !.pushed = Pushed(@, client_app.real_time, messages)]
            /\ last_op' = Op("ReceiveTimeUpdates", "ClientMain", burst)
            /\ UNCHANGED << world, prediction_world, prediction_updates, server_app, next_uid >>

\* ServerTickSamples::reset(current_time, tick)
ResetServerTickSamples ==
    \E tick \in 0..MaxTick :
        /\ client_app' = [client_app EXCEPT
                             !.tick_samples = ServerTickSamples_reset(@, client_app.real_time, tick),
                             !.pushed = Pushed(<< >>, client_app.real_time, << tick >>)]
        /\ last_op' = Op("ResetServerTickSamples", "ClientMain", tick)
        /\ UNCHANGED << world, prediction_world, prediction_updates, server_app, next_uid >>

\* one frame of the client schedule without world updates: the
\* UpdateServerTick messages that arrived are received and the target of the
\* main world is driven (the two systems of ReceiveTime, in either order),
\* the main world runs its ticks, the template world runs within its budget
ClientFrame ==
    /\ world["ClientMain"].built /\ world["ClientTemplate"].built
    /\ \E advance \in 0..MaxAdvance, burst \in 0..MaxBurst, interval \in 0..MaxInterval,
          receive_first \in BOOLEAN, despawn_first \in BOOLEAN :
         LET real_time == client_app.real_time + advance
             received == receive_time_updates(client_app.tick_samples, real_time,
                            ticks_after(latest(client_app.tick_samples), burst))
             server_time == IF receive_first THEN received ELSE client_app.tick_samples
             target_time == estimated_time(server_time, real_time) + interval
             driven == drive_simulation_time(world["ClientMain"], target_time \div StepInterval)
             budget == drive_prediction_budget(client_app.budget,
                          driven.time.target_tick - world["ClientMain"].time.target_tick)
             template == run_template_world(world["ClientTemplate"], received, budget,
                                            despawn_first)
         IN  /\ real_time <= MaxRealTime
             /\ latest(client_app.tick_samples) + burst <= MaxTick
             /\ latest(received) >= world["ClientTemplate"].time.current_tick
             /\ world' = [world EXCEPT
                             !["ClientMain"] = run_simulation_schedule(driven, despawn_first),
                             !["ClientTemplate"] = template[1]]
             /\ client_app' = [client_app EXCEPT
                               !.tick_samples = received, !.budget = template[2],
                               !.real_time = real_time,
                               !.pushed = Pushed(@, real_time,
                                             ticks_after(latest(client_app.tick_samples), burst))]
             /\ last_op' = Op("ClientFrame", "ClientMain",
                              [burst |-> burst, receive_first |-> receive_first])
    /\ WithinBounds(world'["ClientMain"]) /\ WithinBounds(world'["ClientTemplate"])
    /\ UNCHANGED << prediction_world, prediction_updates, next_uid, server_app >>

\* receive_world_updates of the template world: a ServerWorldUpdate{update,
\* include_in_prediction} of the server is queued in the template world;
\* `include_in_prediction: _` is not read.  The step records the flag.
ReceiveWorldUpdate(Ticks, Ids) ==
    /\ world["ClientTemplate"].built
    /\ next_uid <= MaxUpdates
    /\ \E T \in UpdateTypes, tick \in Ticks, include_in_prediction \in BOOLEAN :
         \E payload \in Payloads(T, Ids) :
            /\ world' = [world EXCEPT !["ClientTemplate"].queue[T] =
                            insert(@, [tick |-> tick, update |-> payload, uid |-> next_uid,
                                       late |-> world["ClientTemplate"].time.current_tick > tick])]
            /\ last_op' = Op("ReceiveWorldUpdate", "ClientTemplate",
                             [uid |-> next_uid, type |-> T,
                              include_in_prediction |-> include_in_prediction])
    /\ next_uid' = next_uid + 1
    /\ UNCHANGED << prediction_world, prediction_updates, client_app, server_app >>

\* PredictionUpdateCreator::create: the update is stamped with the current
\* tick of the main world, queued there and recorded in PredictionUpdates
Create ==
    /\ world["ClientMain"].built
    /\ next_uid <= MaxUpdates
    /\ \E T \in UpdateTypes :
         \E payload \in Payloads(T, {1}) :
            LET update == [tick |-> world["ClientMain"].time.current_tick,
                           update |-> payload, uid |-> next_uid, late |-> FALSE]
            IN  /\ world' = [world EXCEPT !["ClientMain"].queue[T] = insert(@, update)]
                /\ prediction_updates' =
                      [prediction_updates EXCEPT ![T] = Append(@, update)]
    /\ next_uid' = next_uid + 1
    /\ last_op' = Op("Create", "ClientMain", next_uid)
    /\ UNCHANGED << prediction_world, client_app, server_app >>

\* poll_prediction_world
PollPredictionWorld ==
    /\ world["ClientPrediction"].built
    /\ prediction_world' = [prediction_world EXCEPT !.world = poll(@)]
    /\ last_op' = Op("PollPredictionWorld", "ClientPrediction", prediction_world.world.state)
    /\ UNCHANGED << world, prediction_updates, next_uid, client_app, server_app >>

\* set_prediction_target: the target of an idle prediction world is raised to
\* the target of the main world, and a prediction is then needed
SetPredictionTarget ==
    /\ world["ClientMain"].built /\ world["ClientPrediction"].built
    /\ LET got == get(prediction_world.world, world["ClientPrediction"])
           prediction_target == world["ClientMain"].time.target_tick
       IN  /\ got.world # None
           /\ IF prediction_target > got.world[1].time.target_tick
              THEN /\ world' = [world EXCEPT !["ClientPrediction"] =
                                   [got.world[1] EXCEPT !.time.target_tick = prediction_target]]
                   /\ prediction_world' = [prediction_world EXCEPT
                                             !.world = got.parallel,
                                             !.prediction_needed = TRUE]
              ELSE /\ world' = [world EXCEPT !["ClientPrediction"] = got.world[1]]
                   /\ prediction_world' = [prediction_world EXCEPT !.world = got.parallel]
    /\ last_op' = Op("SetPredictionTarget", "ClientPrediction", 0)
    /\ UNCHANGED << prediction_updates, next_uid, client_app, server_app >>

\* drain_prediction_updates::<T>, for every update type T
DrainPredictionUpdates ==
    /\ world["ClientPrediction"].built
    /\ LET got == get(prediction_world.world, world["ClientPrediction"])
       IN  /\ got.world # None
           /\ world' = [world EXCEPT !["ClientPrediction"] = got.world[1]]
           /\ prediction_world' = [prediction_world EXCEPT !.world = got.parallel]
           /\ prediction_updates' =
                 [T \in UpdateTypes |->
                     drain_prediction_updates(prediction_updates[T],
                                              got.world[1].time.current_tick)]
    /\ last_op' = Op("DrainPredictionUpdates", "ClientPrediction", 0)
    /\ UNCHANGED << next_uid, client_app, server_app >>

\* queue_prediction_updates::<T> for every update type T, then
\* run_prediction_app: when a prediction is needed, PredictionUpdates are
\* added to the queues of the prediction world (if it is idle) before it is
\* run.  The step records the run state it found.
QueueAndRunPrediction ==
    /\ world["ClientPrediction"].built
    /\ prediction_world.prediction_needed
    /\ LET got == get(prediction_world.world, world["ClientPrediction"])
       IN  /\ world' =
                 IF got.world = None THEN world
                 ELSE [world EXCEPT !["ClientPrediction"] =
                         [got.world[1] EXCEPT !.queue =
                             [T \in UpdateTypes |->
                                 queue_prediction_updates(prediction_updates[T],
                                                          got.world[1].queue[T])]]]
           /\ \A T \in UpdateTypes : Len(world'["ClientPrediction"].queue[T]) <= MaxQueued
           /\ prediction_world' = [prediction_world EXCEPT
                                     !.world = ParallelWorld_update(got.parallel),
                                     !.extracted = FALSE]
    /\ last_op' = Op("RunPredictionApp", "ClientPrediction", prediction_world.world.state)
    /\ UNCHANGED << prediction_updates, next_uid, client_app, server_app >>

\* run_parallel_world: the task of a Running prediction world runs its Main
\* schedule (run_simulation_schedule) and returns the World
CompletePrediction ==
    /\ prediction_world.world.state = "Running"
    /\ ~prediction_world.world.finished
    /\ \E despawn_first \in BOOLEAN :
          world' = [world EXCEPT !["ClientPrediction"] =
                      run_simulation_schedule(@, despawn_first)]
    /\ WithinBounds(world'["ClientPrediction"])
    /\ prediction_world' = [prediction_world EXCEPT !.world.finished = TRUE]
    /\ last_op' = Op("CompletePrediction", "ClientPrediction", 0)
    /\ UNCHANGED << prediction_updates, next_uid, client_app, server_app >>

(* --------------------------- specifications ---------------------------- *)
\* the server instance: updates are queued, ticks are queued and run
NextServer ==
    \/ Build("Server")
    \/ Insert("Server", AllTicks, SimulationEntity)
    \/ QueueTicks("Server")
    \/ RunSchedule("Server")

SpecServer == Init /\ [][NextServer]_vars

\* the template world of a client: built, fed with updates for one entity that
\* are stamped with its current tick, run and reset
NextTemplate ==
    \/ Build("ClientTemplate")
    \/ Insert("ClientTemplate", {world["ClientTemplate"].time.current_tick}, {1})
    \/ Run("ClientTemplate")
    \/ Reset("ClientTemplate")

Spec == Init /\ [][NextTemplate]_vars

\* the template world runs the updates it is fed (as above) and is extracted
\* into the prediction world, which runs ahead of it
NextExtract ==
    \/ \E i \in SimulationWorlds : Build(i)
    \/ Insert("ClientTemplate", {world["ClientTemplate"].time.current_tick}, {1})
    \/ \E i \in SimulationWorlds : Run(i)
    \/ ClearTarget("ClientPrediction")
    \/ Extract("ClientTemplate", "ClientPrediction")

SpecExtract == Init /\ [][NextExtract]_vars

\* the systems of the template world spawn simulation entities and give and
\* take their components and relations; the world is extracted into the
\* prediction world
NextRelations ==
    \/ \E i \in SimulationWorlds : Build(i)
    \/ SpawnSimulationEntity("ClientTemplate")
    \/ RemoveComponent("ClientTemplate")
    \/ InsertRelation("ClientTemplate")
    \/ RemoveRelation("ClientTemplate")
    \/ ExtractRelations("ClientTemplate", "ClientPrediction")

SpecRelations == Init /\ [][NextRelations]_vars

\* the main world of the client advances and creates updates; the prediction
\* world is given its target and the recorded updates, runs in a task and is
\* polled
NextPrediction ==
    \/ \E i \in {"ClientMain", "ClientPrediction"} : Build(i)
    \/ QueueTicks("ClientMain")
    \/ RunSchedule("ClientMain")
    \/ Create
    \/ PollPredictionWorld
    \/ SetPredictionTarget
    \/ DrainPredictionUpdates
    \/ QueueAndRunPrediction
    \/ CompletePrediction

SpecPrediction == Init /\ [][NextPrediction]_vars

\* the frames of the main world: resets, the target driven by the estimated
\* server time, the ticks run, the prediction world run ahead and extracted
\* into the main world
NextMain ==
    \/ \E i \in {"ClientMain"} \cup SimulationWorlds : Build(i)
    \/ ResetSimulations
    \/ DriveSimulationTime
    \/ RunSchedule("ClientMain")
    \/ Run("ClientPrediction")
    \/ Extract("ClientPrediction", "ClientMain")

SpecMain == Init /\ [][NextMain]_vars

\* the frames of the client while UpdateServerTick messages arrive
NextFrames ==
    \/ \E i \in {"ClientMain"} \cup SimulationWorlds : Build(i)
    \/ ResetSimulations
    \/ ClientFrame

SpecFrames == Init /\ [][NextFrames]_vars

\* the calls of ServerTickSamples::push and ::reset
NextSamples ==
    \/ ReceiveTimeUpdates
    \/ ResetServerTickSamples

SpecSamples == Init /\ [][NextSamples]_vars

\* the frames of the server while connections are marked PredictionClient
NextServerFrames ==
    \/ Build("Server")
    \/ \E c \in Clients : InsertPredictionClient(c)
    \/ SendSimulationResets
    \/ \E c \in Clients : WriteNow(c)
    \/ ServerDriveSimulationTime
    \/ ServerStepSimulation

SpecServerFrames == Init /\ [][NextServerFrames]_vars

\* the frames of the server without world updates
NextServerTicks ==
    \/ Build("Server")
    \/ \E c \in Clients : InsertPredictionClient(c)
    \/ SendSimulationResets
    \/ ServerDriveSimulationTime
    \/ ServerStepSimulation

SpecServerTicks == Init /\ [][NextServerTicks]_vars

\* the server and the client of connection 1, which is marked PredictionClient
\* before the SendResets of a frame; the messages sent to it arrive in order.
\* The server writes one world update; on the client receive_time_updates
\* runs before drive_simulation_time.
NextDelivery ==
    \/ \E i \in Instances : Build(i)
    \/ /\ \A i \in Instances : world[i].built
       /\ \/ server_app.systems = "SendResets" /\ InsertPredictionClient(1)
          \/ SendSimulationResets
          \/ next_uid = 1 /\ WriteNow(1)
          \/ ServerDriveSimulationTime
          \/ ServerStepSimulation
          \/ ClientFrameOfStream(1, MaxInterval, TRUE)

SpecDelivery == Init /\ [][NextDelivery]_vars

\* the template world receives the updates of the server, flagged for
\* prediction or not, and runs them; it is extracted into the prediction
\* world, which runs ahead of it
NextReceive ==
    \/ \E i \in SimulationWorlds : Build(i)
    \/ ReceiveWorldUpdate({world["ClientTemplate"].time.current_tick}, {1})
    \/ \E i \in SimulationWorlds : Run(i)
    \/ Extract("ClientTemplate", "ClientPrediction")

SpecReceive == Init /\ [][NextReceive]_vars

\* the same without locally created updates: the main world advances, the
\* prediction world is started, runs and is polled
NextPredictionRuns ==
    \/ \E i \in {"ClientMain", "ClientPrediction"} : Build(i)
    \/ QueueTicks("ClientMain")
    \/ RunSchedule("ClientMain")
    \/ PollPredictionWorld
    \/ SetPredictionTarget
    \/ QueueAndRunPrediction
    \/ CompletePrediction

SpecPredictionRuns == Init /\ [][NextPredictionRuns]_vars

(* =============================== claims ================================ *)
\* the updates delivered in instance i
Deliveries(i) == {world[i].delivered[n] : n \in DOMAIN world[i].delivered}

\* how often the update with identity u is queued or has been delivered
CountIn(seq, u) == Len(SelectSeq(seq, LAMBDA x : x.uid = u))
OccurrencesIn(i, u) ==
    CountIn(world[i].queue["UpdateExampleBox"], u)
    + CountIn(world[i].queue["DespawnSimulatonEntity"], u)
    + CountIn(world[i].delivered, u)
Occurrences(u) ==
    OccurrencesIn("Server", u) + OccurrencesIn("ClientMain", u)
    + OccurrencesIn("ClientTemplate", u) + OccurrencesIn("ClientPrediction", u)

\* every inserted update is either still queued or was yielded, once in all;
\* and a yielded update was yielded in a pass of a tick >= its own
C1_OnceNotEarly ==
    /\ \A u \in 1..(next_uid - 1) : Occurrences(u) = 1
    /\ \A i \in Instances : \A d \in Deliveries(i) : d.at >= d.tick

\* a step that executes ticks yields the front of every queue that was due
C1_DueFrontYielded ==
    \A i \in Instances, T \in UpdateTypes :
        ( /\ world'[i].steps > world[i].steps
          /\ world[i].queue[T] # << >>
          /\ Head(world[i].queue[T]).tick <= world[i].time.current_tick )
        => \E d \in {world'[i].delivered[n] : n \in DOMAIN world'[i].delivered} :
              d.uid = Head(world[i].queue[T]).uid

\* C1: a WorldUpdate inserted with tick t is yielded by drain exactly once
\* (never twice; not dropped: it stays queued until it is yielded, and every
\* executed pass yields the due front of each queue), in a pass with
\* current_tick >= t.
C1_ExactlyOnceNotEarly == []C1_OnceNotEarly /\ [][C1_DueFrontYielded]_vars

\* an update that was due before the tick it was yielded in, yielded once
C1_Witness ==
    \E d \in Deliveries("Server") :
        d.at > d.tick /\ Occurrences(d.uid) = 1 /\ world["Server"].steps >= 2

\* C2: an update that was inserted while current_tick <= t is yielded in the
\* pass of tick t; only an update inserted while current_tick > t is yielded late.
C2_OnExactTick ==
    \A i \in Instances : \A d \in Deliveries(i) : ~d.late => d.at = d.tick

\* C3: of two updates of one type with the same tick, the one that was
\* inserted first is in front of the other in the queue and is yielded first;
\* an update of a greater tick is behind both.
C3_SameTickFifo ==
    \A i \in Instances :
        /\ \A T \in UpdateTypes : \A m, n \in DOMAIN world[i].queue[T] :
              m < n => LET a == world[i].queue[T][m]
                           b == world[i].queue[T][n]
                       IN  a.tick < b.tick \/ (a.tick = b.tick /\ a.uid < b.uid)
        /\ \A m, n \in DOMAIN world[i].delivered :
              LET a == world[i].delivered[m]
                  b == world[i].delivered[n]
              IN  (a.type = b.type /\ a.tick = b.tick /\ a.uid < b.uid) => m < n
        /\ \A T \in UpdateTypes : \A n \in DOMAIN world[i].queue[T] :
              \A d \in Deliveries(i) :
                  (d.type = T /\ d.tick = world[i].queue[T][n].tick)
                      => d.uid < world[i].queue[T][n].uid

\* two updates of one type and tick were yielded, in the order of insertion
C3_Witness ==
    \E m, n \in DOMAIN world["Server"].delivered :
        LET a == world["Server"].delivered[m]
            b == world["Server"].delivered[n]
        IN  m < n /\ a.type = b.type /\ a.tick = b.tick /\ a.uid < b.uid

\* the ticks whose pass instance i executed, in the order of execution
Executed(i) == SelectSeq(world[i].passes, LAMBDA t : t # ClockReplaced)

\* C4 as claimed: in one instance the pass of tick n is executed at most once,
\* and only after the pass of tick n-1, also over extractions into the instance.
C4_OnceAfterPrevious ==
    \A i \in Instances : \A n \in DOMAIN Executed(i) :
        /\ \A m \in DOMAIN Executed(i) : Executed(i)[m] = Executed(i)[n] => m = n
        /\ Executed(i)[n] >= 1 => \E m \in 1..(n - 1) : Executed(i)[m] = Executed(i)[n] - 1

\* C4: the passes that an instance executes with no extraction into it in
\* between are of consecutive ticks, tick n directly after tick n-1 and each
\* once; the first pass of an instance is of tick 0, and after the pass of
\* tick n the clock is at tick n+1.
C4_ConsecutiveBetweenExtractions ==
    \A i \in Instances :
        /\ \A n \in DOMAIN world[i].passes :
              (n > 1 /\ world[i].passes[n] # ClockReplaced
                     /\ world[i].passes[n - 1] # ClockReplaced)
                  => world[i].passes[n] = world[i].passes[n - 1] + 1
        /\ (world[i].passes # << >> /\ world[i].passes[1] # ClockReplaced)
              => world[i].passes[1] = 0
        /\ (world[i].passes # << >> /\ world[i].passes[Len(world[i].passes)] # ClockReplaced)
              => world[i].time.current_tick = world[i].passes[Len(world[i].passes)] + 1

\* the prediction world executed a tick, was extracted into, and then
\* executed that tick again
C4_Witness ==
    LET log == world["ClientPrediction"].passes
    IN  \E k, n \in DOMAIN log :
           /\ k < n - 1
           /\ log[k] # ClockReplaced
           /\ log[n - 1] = ClockReplaced /\ log[n] = log[k]

\* C5 as claimed: no step (stepping, queue_ticks, clear_target, extraction)
\* lowers the current_tick of an instance.
C5_NeverLowered ==
    [][\A i \in Instances :
          world'[i].time.current_tick >= world[i].time.current_tick]_vars

\* C5: stepping, queue_ticks and clear_target never lower the current_tick of
\* an instance; an extraction into an instance sets its current_tick to the
\* current_tick of the source world and changes no other clock.
C5_LoweredByExtractionOnly ==
    [][/\ last_op'.op # "Extract" =>
            \A i \in Instances :
                world'[i].time.current_tick >= world[i].time.current_tick
       /\ last_op'.op = "Extract" =>
            \A i \in Instances :
                world'[i].time.current_tick =
                    IF i = last_op'.instance
                    THEN world[last_op'.arg].time.current_tick
                    ELSE world[i].time.current_tick]_vars

\* an extraction has set the clock of the prediction world back to a tick
\* that the prediction world had already executed
C5_Witness ==
    /\ last_op.op = "Extract"
    /\ \E n \in DOMAIN Executed(last_op.instance) :
          Executed(last_op.instance)[n] >= world[last_op.instance].time.current_tick

\* the ticks from, from + 1, .. up to - 1
RECURSIVE TicksFromTo(_, _)
TicksFromTo(from, to) ==
    IF from >= to THEN << >> ELSE << from >> \o TicksFromTo(from + 1, to)

\* C6: run_simulation_schedule, started (by SimulationWorld::run, after
\* queue_ticks) with current_tick <= target_tick, runs target_tick -
\* current_tick passes, of the ticks current_tick .. target_tick - 1, and ends
\* with current_tick = target_tick and target_tick unchanged; started with
\* current_tick >= target_tick it runs no pass and changes nothing.
C6_RunsToTarget ==
    [][last_op'.op = "Run" =>
         LET i == last_op'.instance
             started == queue_ticks(world[i], last_op'.arg)
             current == started.time.current_tick
             target == started.time.target_tick
         IN  /\ world'[i].time.target_tick = target
             /\ current <= target =>
                   /\ world'[i].time.current_tick = target
                   /\ world'[i].steps = world[i].steps + (target - current)
                   /\ world'[i].update_runs = world[i].update_runs + (target - current)
                   /\ world'[i].passes = world[i].passes \o TicksFromTo(current, target)
             /\ current >= target => world'[i] = started]_vars

\* a run of two passes that ended at its target
C6_Witness ==
    /\ last_op.op = "Run" /\ last_op.arg = 2
    /\ Len(Executed(last_op.instance)) >= 2
    /\ world[last_op.instance].time.current_tick = world[last_op.instance].time.target_tick
    /\ world[last_op.instance].steps >= 2

\* C7: the number of SimulationUpdate passes an instance has executed since it
\* was built equals the number of steps of its clock; building runs no pass.
C7_OnePassPerStep ==
    \A i \in Instances : world[i].update_runs = world[i].steps

\* C8: the SimulationEntityMap is a bijection on the live entities: the id of
\* every live entity maps to that entity (so no two live entities share an
\* id), and every id in the map is the id of the live entity it maps to.
C8_MapBijection ==
    \A i \in Instances :
        /\ \A e \in DOMAIN world[i].entities :
              map_get(world[i], world[i].entities[e].id) = Some(e)
        /\ \A id \in DOMAIN world[i].map :
              /\ world[i].map[id] \in DOMAIN world[i].entities
              /\ world[i].entities[world[i].map[id]].id = id

\* C9: after an extraction, for every id in the source world exactly one
\* entity of the target world carries that id, and its ExampleBox equals the
\* ExampleBox of the source entity.
C9_ExtractedEqual ==
    last_op.op = "Extract" =>
        LET source == world[last_op.arg]
            target == world[last_op.instance]
        IN  \A e \in DOMAIN source.entities :
               LET same == {f \in DOMAIN target.entities :
                               target.entities[f].id = source.entities[e].id}
               IN  /\ Cardinality(same) = 1
                   /\ \A f \in same :
                         target.entities[f].example_box = source.entities[e].example_box

\* C10: after a reset to tick R the current_tick and the target_tick of the
\* instance are R, it has no entity that carries a SimulationEntity id, and
\* its SimulationEntityMap is empty.
C10_ResetClears ==
    last_op.op = "Reset" =>
        /\ world[last_op.instance].time.current_tick = last_op.arg
        /\ world[last_op.instance].time.target_tick = last_op.arg
        /\ DOMAIN world[last_op.instance].entities = {}
        /\ DOMAIN world[last_op.instance].map = {}

\* a reset, to a tick other than the current one, of a world that had spawned
\* two entities (all entities are spawned by apply_update_boxes)
C10_Witness ==
    /\ last_op.op = "Reset"
    /\ world[last_op.instance].next_entity > 2
    /\ \E n \in DOMAIN Executed(last_op.instance) :
          Executed(last_op.instance)[n] >= last_op.arg

\* C11: after a reset of an instance the UpdateExecutionQueue of every update
\* type of that instance is empty, so nothing that was queued before the
\* reset is left to be applied after it.
C11_ResetEmptiesQueues ==
    last_op.op = "Reset" =>
        \A T \in UpdateTypes : world[last_op.instance].queue[T] = << >>

\* C12: an extraction sets the current_tick of the target world to the
\* current_tick of the source world and leaves the target_tick of the target
\* world as it was before the extraction.
C12_ClockCopiedPlanKept ==
    [][last_op'.op = "Extract" =>
          /\ world'[last_op'.instance].time.current_tick =
                world[last_op'.arg].time.current_tick
          /\ world'[last_op'.instance].time.target_tick =
                world[last_op'.instance].time.target_tick]_vars

\* an extraction into a world whose pending plan (its target_tick) is neither
\* the source's target_tick nor the current_tick it received
C12_Witness ==
    /\ last_op.op = "Extract"
    /\ world[last_op.instance].time.target_tick # world[last_op.arg].time.target_tick
    /\ world[last_op.instance].time.target_tick # world[last_op.instance].time.current_tick

\* the entity of world w that the SimulationEntityMap of w gives for the id
\* of entity e of world source_world (None when the id is not mapped)
LocalOf(w, source_world, e) == map_get(w, source_world.entities[e].id)

\* C13: on an extraction, a target entity that had the extracted component
\* keeps it unchanged when the source entity of its id lacks the component,
\* and a target entity has no relation afterwards when the source entity of
\* its id has no relation.
C13_AbsentComponentKeptRelationRemoved ==
    [][last_op'.op = "ExtractRelations" =>
          LET source_world == world["ClientTemplate"]
              before == world[last_op'.instance]
              after == world'[last_op'.instance]
          IN  \A e \in DOMAIN source_world.entities :
                 /\ LocalOf(after, source_world, e) # None
                 /\ LET local_entity == LocalOf(after, source_world, e)[1]
                    IN  /\ local_entity \in DOMAIN after.entities
                        /\ (/\ source_world.entities[e].example_box = None
                            /\ local_entity \in DOMAIN before.entities
                            /\ before.entities[local_entity].example_box # None)
                           => after.entities[local_entity].example_box =
                                 before.entities[local_entity].example_box
                        /\ source_world.entities[e].relation = None
                           => after.entities[local_entity].relation = None]_vars

\* an extraction has removed a relation, and a source entity without the
\* component has a target entity that carries the component
C13_Witness ==
    /\ last_op.op = "ExtractRelations"
    /\ last_op.arg > 0
    /\ \E e \in DOMAIN world["ClientTemplate"].entities :
          /\ world["ClientTemplate"].entities[e].example_box = None
          /\ LocalOf(world[last_op.instance], world["ClientTemplate"], e) # None
          /\ world[last_op.instance].entities[
                LocalOf(world[last_op.instance], world["ClientTemplate"], e)[1]].example_box # None

C15_UnknownIdSkipsOnlyItself ==
    last_op.op = "RunSchedule" =>
        LET w == world[last_op.instance]
        IN  \A n \in DOMAIN w.queue["DespawnSimulatonEntity"] :
               w.queue["DespawnSimulatonEntity"][n].tick >= w.time.current_tick

\* C16: within one SimulationUpdate pass the user systems run before the
\* DespawnSimulationEntity drainer: of the updates yielded in one pass, none
\* is yielded to a user system (apply_update_boxes) after one was yielded to
\* apply_despawn_simulation_entities.
C16_UserSystemsBeforeDespawn ==
    LET delivered == world["Server"].delivered
    IN  \A m, n \in DOMAIN delivered :
           (m < n /\ delivered[m].at = delivered[n].at)
              => ~(/\ delivered[m].type = "DespawnSimulatonEntity"
                   /\ delivered[n].type = "UpdateExampleBox")

\* the run state of the prediction world
RunState == prediction_world.world.state

\* C17: the run state of the prediction world is Idle or Running, Idle at
\* first; it goes from Idle to Running only in run_prediction_app, which
\* starts a run whenever it finds the world Idle, and from Running to Idle
\* only in a poll that finds the run completed, which every such poll does;
\* run_prediction_app while Running changes neither the run nor the world, and
\* never more than one run is in flight.
C17_IdleRunningOneRun ==
    /\ RunState = "Idle"
    /\ [](/\ RunState \in {"Idle", "Running"}
          /\ prediction_world.world.in_flight = IF RunState = "Running" THEN 1 ELSE 0)
    /\ [][/\ (RunState = "Idle" /\ RunState' = "Running")
                => last_op'.op = "RunPredictionApp"
          /\ (RunState = "Running" /\ RunState' = "Idle")
                => (last_op'.op = "PollPredictionWorld" /\ prediction_world.world.finished)
          /\ (last_op'.op = "RunPredictionApp" /\ RunState = "Idle")
                => RunState' = "Running"
          /\ (last_op'.op = "PollPredictionWorld" /\ RunState = "Running"
                 /\ prediction_world.world.finished)
                => RunState' = "Idle"
          /\ (last_op'.op = "RunPredictionApp" /\ RunState = "Running")
                => /\ prediction_world'.world = prediction_world.world
                   /\ world' = world]_vars

\* run_prediction_app was called while a run, started after an earlier run
\* had executed ticks or itself past its ticks, was still Running
C17_Witness ==
    /\ last_op.op = "RunPredictionApp"
    /\ last_op.arg = "Running"
    /\ RunState = "Running"
    /\ world["ClientPrediction"].steps > 0

\* the updates held for the prediction world: those recorded in
\* PredictionUpdates and those in the queues of the prediction world
HeldForPrediction(T) ==
    {prediction_updates[T][n].uid : n \in DOMAIN prediction_updates[T]}
        \cup {world["ClientPrediction"].queue[T][n].uid :
                 n \in DOMAIN world["ClientPrediction"].queue[T]}

\* C18: a ServerWorldUpdate received with include_in_prediction = true is,
\* besides being queued in the template world, held for the prediction world
\* (recorded in PredictionUpdates or queued in the prediction world).
C18_IncludedInPrediction ==
    (last_op.op = "ReceiveWorldUpdate" /\ last_op.arg.include_in_prediction)
        => last_op.arg.uid \in HeldForPrediction(last_op.arg.type)

\* C19: no UpdateExecutionQueue of the prediction world holds two copies of
\* one locally created update.
C19_NoSecondCopyQueued ==
    \A T \in UpdateTypes :
        LET queue == world["ClientPrediction"].queue[T]
        IN  \A m, n \in DOMAIN queue : queue[m].uid = queue[n].uid => m = n

EstimatedServerTick ==
    estimated_time(client_app.tick_samples, client_app.real_time) \div StepInterval

\* C21: at the end of every client frame the template world is not past the
\* estimated server tick and the main world is not behind it.
C21_TemplateEstimateMain ==
    last_op.op = "ClientFrame" =>
        /\ world["ClientTemplate"].time.current_tick <= EstimatedServerTick
        /\ EstimatedServerTick <= world["ClientMain"].time.current_tick

\* the messages sent to client c, in send order
Sent(c) == server_app.clients[c].sent

\* C22: for every client exactly one ResetClientSimulation is sent once it was
\* marked, and no UpdateServerTick and no ServerWorldUpdate is sent to it
\* before that reset, at whatever point of a server frame it was marked.
C22_ResetSentFirst ==
    \A c \in Clients :
        /\ Len(SelectSeq(Sent(c), LAMBDA m : m.message = "ResetClientSimulation")) <= 1
        /\ Sent(c) # << >> => Sent(c)[1].message = "ResetClientSimulation"

\* the ticks of the UpdateServerTick messages in a stream, in send order
RECURSIVE TicksOf(_)
TicksOf(sent) ==
    IF sent = << >> THEN << >>
    ELSE (IF Head(sent).message = "UpdateServerTick"
          THEN << Head(sent).simulation_tick >> ELSE << >>) \o TicksOf(Tail(sent))

\* the ticks sent to a client are strictly increasing without a gap
C23_TicksConsecutive ==
    \A c \in Clients :
        \A k \in 1..(Len(TicksOf(Sent(c))) - 1) :
            TicksOf(Sent(c))[k + 1] = TicksOf(Sent(c))[k] + 1

\* a step sends to every marked client the ticks of the passes it executed,
\* once each and in order, and no tick to any other client
C23_EveryPassSentOnce ==
    \A c \in Clients :
        LET executed == SubSeq(world'["Server"].passes, Len(world["Server"].passes) + 1,
                               Len(world'["Server"].passes))
        IN  TicksOf(server_app'.clients[c].sent) =
                TicksOf(Sent(c)) \o (IF server_app.clients[c].PredictionClient
                                     THEN executed ELSE << >>)

UpdateSchedules == << "SimulationPreUpdate", "SimulationUpdate", "SimulationPostUpdate" >>
StartupSchedules == << "SimulationPreStartup", "SimulationStartup", "SimulationPostStartup" >>

\* C24: the schedules run in a built instance start with SimulationPreStartup,
\* SimulationStartup, SimulationPostStartup, once and in that order, and
\* continue with SimulationPreUpdate, SimulationUpdate, SimulationPostUpdate
\* for every tick executed.
C24_StartupOnceThenTicks ==
    \A i \in Instances :
        world[i].built =>
            LET ran == world[i].schedules
            IN  /\ Len(ran) = 3 * (1 + world[i].steps)
                /\ SubSeq(ran, 1, 3) = StartupSchedules
                /\ \A n \in 1..world[i].steps :
                       SubSeq(ran, 3 * n + 1, 3 * n + 3) = UpdateSchedules

\* C25: the buffer holds at most 32 samples, they are the most recent of the
\* samples pushed since the last reset, in arrival order, and latest() is the
\* tick of the most recent push.
C25_NewestSamplesKept ==
    LET pushed == client_app.pushed
        samples == client_app.tick_samples.samples
        kept == IF Len(pushed) < SERVER_TIME_ESTIMATE_SAMPLES THEN Len(pushed)
                ELSE SERVER_TIME_ESTIMATE_SAMPLES
    IN  /\ Len(samples) <= SERVER_TIME_ESTIMATE_SAMPLES
        /\ samples = SubSeq(pushed, Len(pushed) - kept + 1, Len(pushed))
        /\ pushed # << >> => latest(client_app.tick_samples) = pushed[Len(pushed)].tick

\* more samples than the buffer holds were pushed after a reset
C25_Witness ==
    /\ Len(client_app.pushed) > SERVER_TIME_ESTIMATE_SAMPLES
    /\ client_app.pushed[1].tick > 0
    /\ last_op.op = "ReceiveTimeUpdates"
    /\ client_app.tick_samples.samples[1] = client_app.pushed[Len(client_app.pushed) - 31]

\* C26: the clock that a reset to tick t installs with from_tick(t) has
\* current_tick = target_tick = t, an elapsed time of t step intervals and a
\* delta of one step interval, for every t, 0 included.
C26_FromTickClock ==
    last_op.op = "Reset" =>
        LET clock == world[last_op.instance].time
        IN  /\ clock.current_tick = last_op.arg
            /\ clock.target_tick = last_op.arg
            /\ clock.elapsed = time(last_op.arg)
            /\ clock.delta = StepInterval

\* the updates waiting in the queues of instance i
Queued(i) ==
    UNION {{world[i].queue[T][n] : n \in DOMAIN world[i].queue[T]} : T \in UpdateTypes}

\* C27: an update that the server sent with write_now at its tick t is handed
\* to the template world's systems in the pass of tick t: none is yielded in
\* another pass and none is queued when the template world is past its tick,
\* in whatever order the systems of a client frame run.
C27_WriteNowOnItsTick ==
    /\ \A d \in Deliveries("ClientTemplate") : d.at = d.tick
    /\ \A u \in Queued("ClientTemplate") : ~u.late

(* ------------- the worlds of the client that run in tasks -------------- *)
\* poll_server_world
PollServerWorld ==
    /\ world["ClientTemplate"].built
    /\ client_app' = [client_app EXCEPT !.server_world = poll(@)]
    /\ last_op' = Op("PollServerWorld", "ClientTemplate", client_app.server_world.state)
    /\ UNCHANGED << world, prediction_world, prediction_updates, next_uid, server_app >>

\* a ServerWorldUpdate<T> of the server arrives and waits in ReceivedMessages
ArriveWorldUpdate ==
    /\ next_uid <= MaxUpdates
    /\ Len(client_app.world_updates) < MaxArrived
    /\ \E T \in UpdateTypes, tick \in AllTicks :
         \E payload \in Payloads(T, {1}) :
            client_app' = [client_app EXCEPT !.world_updates =
                              Append(@, [type |-> T,
                                         update |-> [tick |-> tick, update |-> payload,
                                                     uid |-> next_uid, late |-> FALSE]])]
    /\ next_uid' = next_uid + 1
    /\ last_op' = Op("ArriveWorldUpdate", "ClientTemplate", next_uid)
    /\ UNCHANGED << world, prediction_world, prediction_updates, server_app >>

\* the loop of receive_world_updates over the drained messages
RECURSIVE insert_world_updates(_, _)
insert_world_updates(queue, messages) ==
    IF messages = << >> THEN queue
    ELSE insert_world_updates(
            [queue EXCEPT ![Head(messages).type] = insert(@, Head(messages).update)],
            Tail(messages))

\* receive_world_updates::<T> of the ServerWorld, for every update type T:
\* the messages are drained only when the world is handed out
ReceiveServerWorldUpdates ==
    /\ world["ClientTemplate"].built
    /\ LET got == get(client_app.server_world, world["ClientTemplate"])
       IN  IF got.world = None
           THEN UNCHANGED << world, client_app >>
           ELSE /\ world' = [world EXCEPT !["ClientTemplate"] =
                               [got.world[1] EXCEPT !.queue =
                                   insert_world_updates(@, client_app.world_updates)]]
                /\ client_app' = [client_app EXCEPT !.server_world = got.parallel,
                                                    !.world_updates = << >>]
    /\ last_op' = Op("ReceiveServerWorldUpdates", "ClientTemplate",
                     client_app.server_world.state)
    /\ UNCHANGED << prediction_world, prediction_updates, next_uid, server_app >>

\* run_server_world: an idle template world that is behind the latest server
\* time is given that target and is moved into a task
RunServerWorld ==
    /\ world["ClientTemplate"].built
    /\ \E target_time \in AllTicks :
         LET got == get(client_app.server_world, world["ClientTemplate"])
         IN  /\ IF got.world = None
                THEN UNCHANGED << world, client_app >>
                ELSE IF target_time > got.world[1].time.current_tick
                THEN /\ world' = [world EXCEPT !["ClientTemplate"] =
                                    [got.world[1] EXCEPT !.time.target_tick = target_time]]
                     /\ client_app' = [client_app EXCEPT !.server_world =
                                          ParallelWorld_update(got.parallel)]
                ELSE /\ world' = [world EXCEPT !["ClientTemplate"] = got.world[1]]
                     /\ client_app' = [client_app EXCEPT !.server_world = got.parallel]
             /\ last_op' = Op("RunServerWorld", "ClientTemplate", client_app.server_world.state)
    /\ UNCHANGED << prediction_world, prediction_updates, next_uid, server_app >>

\* run_parallel_world: the task of a Running template world runs its Main
\* schedule and returns the World
CompleteServerWorld ==
    /\ client_app.server_world.state = "Running"
    /\ ~client_app.server_world.finished
    /\ \E despawn_first \in BOOLEAN :
          world' = [world EXCEPT !["ClientTemplate"] =
                      run_simulation_schedule(@, despawn_first)]
    /\ WithinBounds(world'["ClientTemplate"])
    /\ client_app' = [client_app EXCEPT !.server_world.finished = TRUE]
    /\ last_op' = Op("CompleteServerWorld", "ClientTemplate", 0)
    /\ UNCHANGED << prediction_world, prediction_updates, next_uid, server_app >>

\* extract_server_world: when a prediction is needed and both worlds are
\* idle, the clock and the simulation entities of the template world are
\* copied into the prediction world
ExtractServerWorld ==
    /\ world["ClientTemplate"].built /\ world["ClientPrediction"].built
    /\ LET server_got == get(client_app.server_world, world["ClientTemplate"])
           prediction_got == get(prediction_world.world, world["ClientPrediction"])
       IN  IF ~prediction_world.prediction_needed \/ server_got.world = None
           THEN UNCHANGED << world, prediction_world, client_app >>
           ELSE IF prediction_got.world = None
           THEN /\ world' = [world EXCEPT !["ClientTemplate"] = server_got.world[1]]
                /\ client_app' = [client_app EXCEPT !.server_world = server_got.parallel]
                /\ UNCHANGED prediction_world
           ELSE /\ world' = [world EXCEPT
                               !["ClientTemplate"] = server_got.world[1],
                               !["ClientPrediction"] =
                                   extract(server_got.world[1], prediction_got.world[1])]
                /\ WithinBounds(world'["ClientPrediction"])
                /\ prediction_world' = [prediction_world EXCEPT !.world = prediction_got.parallel]
                /\ client_app' = [client_app EXCEPT
                                    !.server_world = server_got.parallel,
                                    !.last_predicted_tick = server_got.world[1].time.current_tick]
    /\ last_op' = Op("ExtractServerWorld", "ClientPrediction",
                     << client_app.server_world.state, prediction_world.world.state >>)
    /\ UNCHANGED << prediction_updates, next_uid, server_app >>

\* extract_predicton_world: a finished prediction that was not yet extracted
\* is copied into the main world.  The PredictionWorld resource is removed
\* from the main world first and inserted again before each `return Ok(())`;
\* the prediction world is swapped with the scratch world (World::default())
\* while ExtractSimulation runs.  When a system of that schedule removed the
\* SourceWorld (removed, in Removed), `.ok_or(..)?` returns the error before
\* the worlds are swapped back and the resource is inserted.
ExtractPredictionWorld(Removed) ==
    /\ world["ClientMain"].built
    /\ world["ClientPrediction"].built \/ ~prediction_world.in_main_world
    /\ \E removed \in Removed :
         LET got == get(prediction_world.world, world["ClientPrediction"])
         IN  IF ~prediction_world.in_main_world
             THEN /\ UNCHANGED << world, prediction_world >>
                  /\ last_op' = Op("ExtractPredictionWorld", "ClientMain",
                                   "Prediction world should exist")
             ELSE IF prediction_world.extracted \/ got.world = None
             THEN /\ UNCHANGED << world, prediction_world >>
                  /\ last_op' = Op("ExtractPredictionWorld", "ClientMain",
                                   prediction_world.world.state)
             ELSE IF removed
             THEN /\ world' = [world EXCEPT
                                 !["ClientPrediction"] = NewWorld,
                                 !["ClientMain"] = extract(got.world[1], @)]
                  /\ WithinBounds(world'["ClientMain"])
                  /\ prediction_world' = [prediction_world EXCEPT !.world = got.parallel,
                                                                  !.in_main_world = FALSE]
                  /\ last_op' = Op("ExtractPredictionWorld", "ClientMain",
                                   "Extract schedule removed the SourceWorld")
             ELSE /\ world' = [world EXCEPT
                                 !["ClientPrediction"] = got.world[1],
                                 !["ClientMain"] = extract(got.world[1], @)]
                  /\ WithinBounds(world'["ClientMain"])
                  /\ prediction_world' = [prediction_world EXCEPT !.world = got.parallel]
                  /\ last_op' = Op("ExtractPredictionWorld", "ClientMain",
                                   prediction_world.world.state)
    /\ UNCHANGED << prediction_updates, client_app, next_uid, server_app >>

\* set_prediction_wrold_extracted
SetPredictionWorldExtracted ==
    /\ world["ClientPrediction"].built
    /\ LET got == get(prediction_world.world, world["ClientPrediction"])
       IN  IF got.world = None
           THEN UNCHANGED << world, prediction_world >>
           ELSE /\ world' = [world EXCEPT !["ClientPrediction"] = got.world[1]]
                /\ prediction_world' = [prediction_world EXCEPT !.world = got.parallel,
                                                                !.extracted = TRUE]
    /\ last_op' = Op("SetPredictionWorldExtracted", "ClientPrediction",
                     prediction_world.world.state)
    /\ UNCHANGED << prediction_updates, client_app, next_uid, server_app >>

\* the template world and the prediction world run in tasks: the template
\* world follows the server time, the main world creates updates and raises
\* its target, the prediction world is extracted from the template world, is
\* given the recorded updates and runs to the target.  The recorded updates are
\* drained after extract_server_world, as the system sets are ordered
NextReconcile ==
    \/ \E i \in Instances \ {"Server"} : Build(i)
    \/ /\ \A i \in Instances \ {"Server"} : world[i].built
       /\ \/ QueueTicks("ClientMain")
          \/ next_uid = 1 /\ Create
          \/ PollServerWorld
          \/ RunServerWorld
          \/ CompleteServerWorld
          \/ PollPredictionWorld
          \/ SetPredictionTarget
          \/ ExtractServerWorld
          \/ last_op.op = "ExtractServerWorld" /\ DrainPredictionUpdates
          \/ QueueAndRunPrediction
          \/ CompletePrediction

SpecReconcile == Init /\ [][NextReconcile]_vars

\* the updates of PredictionUpdates, of every type
RecordedUpdates(updates) ==
    UNION {{updates[T][n] : n \in DOMAIN updates[T]} : T \in UpdateTypes}

\* C28: a step removes from PredictionUpdates only entries whose tick is below
\* the tick the template world had when it was last copied into the prediction
\* world, also in a frame in which no such copy took place
C28_DrainedBelowLastPredictedTick ==
    [][\A update \in RecordedUpdates(prediction_updates) \ RecordedUpdates(prediction_updates') :
          update.tick < client_app'.last_predicted_tick]_vars

\* the frame systems of the client that reach a world held in a task, and the
\* tasks: updates of the server arrive and are queued in the template world,
\* which follows the server time; the prediction world is extracted from it,
\* runs to the target of the main world and is extracted into the main world
NextParallel ==
    \/ \E i \in Instances \ {"Server"} : Build(i)
    \/ /\ \A i \in Instances \ {"Server"} : world[i].built
       /\ \/ world["ClientMain"].time.target_tick = 0 /\ QueueTicks("ClientMain")
          \/ next_uid = 1 /\ ArriveWorldUpdate
          \/ ReceiveServerWorldUpdates
          \/ PollServerWorld
          \/ world["ClientTemplate"].time.current_tick = 0 /\ RunServerWorld
          \/ CompleteServerWorld
          \/ PollPredictionWorld
          \/ SetPredictionTarget
          \/ ExtractPredictionWorld({FALSE})
          \/ ExtractServerWorld
          \/ SetPredictionWorldExtracted
          \/ QueueAndRunPrediction
          \/ CompletePrediction

SpecParallel == Init /\ [][NextParallel]_vars

\* the messages of a ReceivedMessages buffer
Buffered(messages) == {messages[n] : n \in DOMAIN messages}

\* the updates queued in world w, of every type
QueuedUpdates(w) ==
    UNION {{w.queue[T][n] : n \in DOMAIN w.queue[T]} : T \in UpdateTypes}

\* C29: while the template world or the prediction world is Running, only its
\* task changes it; an extraction copies only between idle worlds; a received
\* update leaves the buffer only into the queue of the idle template world
C29_RunningWorldUntouched ==
    [][/\ (prediction_world.world.state = "Running" /\ last_op'.op # "CompletePrediction")
             => world'["ClientPrediction"] = world["ClientPrediction"]
       /\ (client_app.server_world.state = "Running" /\ last_op'.op # "CompleteServerWorld")
             => world'["ClientTemplate"] = world["ClientTemplate"]
       /\ (last_op'.op = "ExtractServerWorld"
             /\ world'["ClientPrediction"] # world["ClientPrediction"])
             => /\ client_app.server_world.state = "Idle"
                /\ prediction_world.world.state = "Idle"
       /\ (last_op'.op = "ExtractPredictionWorld" /\ world'["ClientMain"] # world["ClientMain"])
             => prediction_world.world.state = "Idle"
       /\ \A message \in Buffered(client_app.world_updates) \ Buffered(client_app'.world_updates) :
             /\ client_app.server_world.state = "Idle"
             /\ message.update \in QueuedUpdates(world'["ClientTemplate"])
      ]_vars

\* an update arrived and receive_world_updates ran while the template world
\* was Running: the update is still in the buffer, and the prediction world
\* is Running as well
C29_Witness ==
    /\ last_op.op = "ReceiveServerWorldUpdates"
    /\ last_op.arg = "Running"
    /\ client_app.world_updates # << >>
    /\ prediction_world.world.state = "Running"

\* ParallelWorld::reset applied only to an Idle world
ParallelWorld_reset_if_idle(parallel, elapsed) ==
    IF parallel.state # "Idle" THEN parallel ELSE [parallel EXCEPT !.reset = Some(elapsed)]

\* ParallelWorld::reset: the flag that makes the next get() reset the world
ParallelWorld_reset(parallel, elapsed) == [parallel EXCEPT !.reset = Some(elapsed)]

\* reset_simulations with the prediction world held in a task: the template
\* world and the main world are reset at once, the prediction world is
\* flagged, the samples are re-seeded
ResetSimulationsOfTasks ==
    /\ \A i \in {"ClientMain"} \cup SimulationWorlds : world[i].built
    /\ \E reset_tick \in 0..MaxTick :
         /\ world' = [world EXCEPT
                        !["ClientTemplate"] = reset(@, reset_tick),
                        !["ClientMain"] = reset(@, reset_tick)]
         /\ prediction_world' = [prediction_world EXCEPT
                                   !.world = ParallelWorld_reset(@, reset_tick)]
         /\ client_app' = [client_app EXCEPT
                              !.tick_samples =
                                  ServerTickSamples_reset(@, client_app.real_time, reset_tick),
                              !.pushed = Pushed(<< >>, client_app.real_time, << reset_tick >>)]
         /\ last_op' = Op("ResetSimulationsOfTasks", "ClientMain", reset_tick)
    /\ \A i \in Instances : WithinBounds(world'[i])
    /\ UNCHANGED << prediction_updates, next_uid, server_app >>

\* the main world creates an update and raises its target, the prediction
\* world is given the target and the recorded updates and runs in its task;
\* the server resets the client while the prediction world is Running
NextResetOfTasks ==
    \/ \E i \in Instances \ {"Server"} : Build(i)
    \/ /\ \A i \in Instances \ {"Server"} : world[i].built
       /\ \/ /\ world["ClientMain"].time.target_tick = world["ClientMain"].time.current_tick
             /\ QueueTicks("ClientMain")
          \/ next_uid = 1 /\ Create
          \/ PollPredictionWorld
          \/ SetPredictionTarget
          \/ QueueAndRunPrediction
          \/ CompletePrediction
          \/ prediction_world.world.state = "Running" /\ ResetSimulationsOfTasks

SpecResetOfTasks == Init /\ [][NextResetOfTasks]_vars

\* world w is at tick R as a reset leaves it, with no entity that has a
\* SimulationEntity id
ResetTo(w, R) ==
    /\ w.time.current_tick = R
    /\ w.time.target_tick = R
    /\ DOMAIN w.map = {}
    /\ DOMAIN w.entities = {}
    /\ w.passes # << >> /\ w.passes[Len(w.passes)] = ClockReplaced

\* C30: a reset to tick R resets the template world at once and flags the
\* prediction world, also while it is Running, whose task is left alone; the
\* flag stays until a step after the build is handed the world, and that step
\* finds it reset to R with no simulation entity; a world without a flag is
\* not reset by being handed out
C30_ResetMidRun ==
    [][/\ last_op'.op = "ResetSimulationsOfTasks"
             => /\ ResetTo(world'["ClientTemplate"], last_op'.arg)
                /\ prediction_world'.world.reset = Some(last_op'.arg)
                /\ prediction_world.world.state = "Running"
                      => world'["ClientPrediction"] = world["ClientPrediction"]
       /\ (last_op'.op \notin {"ResetSimulationsOfTasks", "Build"}
             /\ prediction_world.world.reset # None)
             => \/ /\ prediction_world'.world.reset = prediction_world.world.reset
                   /\ \/ prediction_world.world.state = "Running"
                      \/ world'["ClientPrediction"] = world["ClientPrediction"]
                \/ /\ prediction_world'.world.reset = None
                   /\ prediction_world.world.state = "Idle"
                   /\ world'["ClientPrediction"].time.current_tick = prediction_world.world.reset[1]
                   /\ DOMAIN world'["ClientPrediction"].entities = {}
                   /\ DOMAIN world'["ClientPrediction"].map = {}
       /\ (last_op'.op \notin {"ResetSimulationsOfTasks", "Build"}
             /\ prediction_world.world.reset = None)
             => /\ prediction_world'.world.reset = None
                /\ world'["ClientPrediction"].time.current_tick
                      >= world["ClientPrediction"].time.current_tick
                /\ last_op'.op # "CompletePrediction"
                      => world'["ClientPrediction"].entities = world["ClientPrediction"].entities
      ]_vars

\* the reset arrived while the prediction world was Running; its task ended
\* with a spawned entity and a later tick, and the step that was handed the
\* world has just found it reset
C30_Witness ==
    /\ last_op.op \in {"SetPredictionTarget", "RunPredictionApp"}
    /\ prediction_world.world.reset = None
    /\ \E n \in DOMAIN world["ClientPrediction"].passes :
          /\ n > 1
          /\ n < Len(world["ClientPrediction"].passes)
          /\ world["ClientPrediction"].passes[n] # ClockReplaced
    /\ world["ClientPrediction"].passes[Len(world["ClientPrediction"].passes)] = ClockReplaced
    /\ world["ClientPrediction"].time.current_tick = world["ClientTemplate"].time.current_tick
    /\ world["ClientPrediction"].time.current_tick > 0
    /\ DOMAIN world["ClientPrediction"].entities = {}
    /\ world["ClientPrediction"].next_entity > 1

\* PredictionInterval: the values the user gives it, whole numbers of step
\* intervals
PredictionIntervals == {n * StepInterval : n \in 0..MaxInterval}

\* C31: after reset_simulations(Some(R)) the main world is at tick
\* R + PredictionInterval / step interval, current and target, and the
\* template world and the prediction world are at tick R
C31_MainAheadAfterReset ==
    last_op.op = "ResetSimulations"
        => \A interval \in PredictionIntervals :
              /\ world["ClientMain"].time.current_tick
                    = last_op.arg + interval \div StepInterval
              /\ world["ClientMain"].time.target_tick
                    = last_op.arg + interval \div StepInterval
              /\ world["ClientTemplate"].time.current_tick = last_op.arg
              /\ world["ClientPrediction"].time.current_tick = last_op.arg

\* C32: after reset_simulations(Some(R)) the budgets and their oversteps are
\* zero
C32_BudgetsResetOnReset ==
    last_op.op = "ResetSimulations" => client_app.budget = NewPredictionBudget

(* ------------- messages from several connections of the client --------- *)
\* the messages that one system finds in the ReceivedMessages of the
\* connections, in the order of its query: one or two messages, each from a
\* connection that has PredictionServerConnection (is_server) or has not
Batches(Message) == {<< m >> : m \in Message} \cup {<< m, n >> : m \in Message, n \in Message}

\* history: the messages of a batch that came from the server, in order
OfServer(batch) == SelectSeq(batch, LAMBDA m : m.is_server)

\* a message alone
Single(Message) == {<< m >> : m \in Message}

\* receive_reset_simulations over the connections: the tick of the last
\* ResetClientSimulation of a connection that is the server
RECURSIVE receive_reset_simulations_of(_, _)
receive_reset_simulations_of(messages, last_reset) ==
    IF messages = << >> THEN last_reset
    ELSE receive_reset_simulations_of(
            Tail(messages),
            IF ~Head(messages).is_server THEN last_reset
            ELSE Some(Head(messages).simulation_tick))

\* a frame begins: Time<Real> advances
AdvanceRealTime ==
    /\ \E advance \in 1..MaxAdvance :
         /\ client_app.real_time + advance <= MaxRealTime
         /\ client_app' = [client_app EXCEPT !.real_time = @ + advance]
         /\ last_op' = Op("AdvanceRealTime", "ClientMain", advance)
    /\ UNCHANGED << world, prediction_world, prediction_updates, next_uid, server_app >>

\* receive_reset_simulations.pipe(reset_simulations)
ReceiveResetSimulations ==
    /\ \A i \in {"ClientMain"} \cup SimulationWorlds : world[i].built
    /\ \E batch \in Batches([is_server : BOOLEAN, simulation_tick : 0..MaxTick]) :
         LET real_time == client_app.real_time
             reset_tick == receive_reset_simulations_of(batch, None)
         IN  /\ IF reset_tick = None
                THEN /\ world' = world
                     /\ client_app' = client_app
                ELSE /\ world' = [i \in Instances |->
                                    IF i \in {"ClientMain"} \cup SimulationWorlds
                                    THEN reset(world[i], reset_tick[1]) ELSE world[i]]
                     /\ client_app' = [client_app EXCEPT
                                         !.real_time = real_time,
                                         !.tick_samples =
                                             ServerTickSamples_reset(@, real_time, reset_tick[1]),
                                         !.pushed = Pushed(<< >>, real_time, reset_tick)]
             /\ last_op' = Op("ReceiveResetSimulations", "ClientMain", OfServer(batch))
    /\ \A i \in Instances : WithinBounds(world'[i])
    /\ UNCHANGED << prediction_world, prediction_updates, next_uid, server_app >>

\* receive_time_updates over the connections: the query has no
\* Has<PredictionServerConnection>, every UpdateServerTick is pushed
ReceiveTimeUpdatesOfConnections ==
    /\ \E batch \in Single([is_server : BOOLEAN, simulation_tick : 0..MaxTick]) :
         /\ Len(client_app.tick_samples.samples) + Len(batch) <= MaxBurst
         /\ client_app' = [client_app EXCEPT
                              !.tick_samples =
                                  receive_time_updates(@, client_app.real_time,
                                                       simulation_ticks(batch)),
                              !.pushed = Pushed(@, client_app.real_time, simulation_ticks(batch))]
         /\ last_op' = Op("ReceiveTimeUpdatesOfConnections", "ClientMain", OfServer(batch))
    /\ UNCHANGED << world, prediction_world, prediction_updates, next_uid, server_app >>

\* receive_world_updates::<T> over the connections: the update of a
\* connection that is not the server is dropped with a warning
ReceiveWorldUpdatesOfConnections ==
    /\ world["ClientTemplate"].built
    /\ next_uid <= MaxUpdates
    /\ \E is_server \in BOOLEAN, T \in UpdateTypes, tick \in AllTicks :
         \E payload \in Payloads(T, {1}) :
            LET update == [tick |-> tick, update |-> payload, type |-> T, uid |-> next_uid]
            IN  /\ world' = [world EXCEPT !["ClientTemplate"] =
                               IF ~is_server THEN @
                               ELSE receive_world_updates(@, << ServerWorldUpdate(update, FALSE) >>)]
                /\ last_op' = Op("ReceiveWorldUpdatesOfConnections", "ClientTemplate",
                                 OfServer(<< [is_server |-> is_server, uid |-> next_uid] >>))
    /\ next_uid' = next_uid + 1
    /\ UNCHANGED << prediction_world, prediction_updates, client_app, server_app >>

\* the client receives resets, ticks and world updates from connections that
\* are or are not marked as the server
NextConnections ==
    \/ \E i \in Instances \ {"Server"} : Build(i)
    \/ /\ \A i \in Instances \ {"Server"} : world[i].built
       /\ \/ AdvanceRealTime
          \/ ReceiveResetSimulations
          \/ ReceiveTimeUpdatesOfConnections
          \/ next_uid = 1 /\ ReceiveWorldUpdatesOfConnections

SpecConnections == Init /\ [][NextConnections]_vars

\* the client receives resets, and a tick after a reset
NextResets ==
    \/ \E i \in Instances \ {"Server"} : Build(i)
    \/ /\ \A i \in Instances \ {"Server"} : world[i].built
       /\ \/ AdvanceRealTime
          \/ ReceiveResetSimulations
          \/ Len(client_app.tick_samples.samples) = 1 /\ ReceiveTimeUpdatesOfConnections

SpecResets == Init /\ [][NextResets]_vars

\* the positions of the messages that came from the server
FromServer(batch) == {n \in DOMAIN batch : batch[n].is_server}

\* C33: after resets were processed in a frame at real time `now`, the
\* samples are exactly the one sample (now, R) and latest() is R, where R is
\* the tick of the last reset that came from the server
C33_OneSampleAfterReset ==
    (last_op.op = "ReceiveResetSimulations" /\ FromServer(last_op.arg) # {})
        => LET last == CHOOSE n \in FromServer(last_op.arg) :
                           \A m \in FromServer(last_op.arg) : m <= n
               R == last_op.arg[last].simulation_tick
           IN  /\ client_app.tick_samples.samples
                     = << [received_time |-> client_app.real_time, tick |-> R] >>
               /\ latest(client_app.tick_samples) = R

\* two resets of the server with different ticks were processed in one
\* frame, later than time 0, when samples had been pushed before
C33_Witness ==
    /\ last_op.op = "ReceiveResetSimulations"
    /\ Len(last_op.arg) = 2
    /\ FromServer(last_op.arg) = {1, 2}
    /\ last_op.arg[1].simulation_tick > last_op.arg[2].simulation_tick
    /\ client_app.real_time > 0
    /\ latest(client_app.tick_samples) = last_op.arg[2].simulation_tick
    /\ Len(client_app.tick_samples.samples) = 1
    /\ Len(client_app.pushed) = 1

\* C40: a step that receives only messages of connections that are not the
\* server changes no world and no tick sample
C40_OnlyServerMessagesCount ==
    [][(/\ last_op'.op \in {"ReceiveResetSimulations", "ReceiveTimeUpdatesOfConnections",
                            "ReceiveWorldUpdatesOfConnections"}
        /\ FromServer(last_op'.arg) = {})
          => /\ world' = world
             /\ client_app'.tick_samples = client_app.tick_samples]_vars

\* the server marks its client at any point of its frames, sends resets and
\* ticks, and the client runs frames on what has arrived of the stream
NextStream ==
    \/ \E i \in Instances : Build(i)
    \/ /\ \A i \in Instances : world[i].built
       /\ \/ InsertPredictionClient(1)
          \/ SendSimulationResets
          \/ ServerDriveSimulationTime
          \/ ServerStepSimulation
          \/ ClientFrameOfStream(1, 0, TRUE)

SpecStream == Init /\ [][NextStream]_vars

\* C35: whenever run_template_world runs, the latest server tick of
\* ServerTickSamples is at least the current tick of the template world
C35_LatestNotBelowTemplate ==
    last_op.op = "ClientFrameOfStream" => last_op.arg.latest >= last_op.arg.current_tick

\* C34: a frame's run_template_world executes min(latest - current_tick,
\* budget.template) ticks of the template world, deducts them from the
\* budget, leaves the template world at or below the latest server tick and
\* raises no error
C34_TemplateRunsWithinBudget ==
    last_op.op = "ClientFrameOfStream"
        => /\ ~client_app.panicked
           /\ last_op.arg.executed
                  = IF last_op.arg.latest - last_op.arg.current_tick < last_op.arg.budget
                    THEN last_op.arg.latest - last_op.arg.current_tick
                    ELSE last_op.arg.budget
           /\ client_app.budget.template = last_op.arg.budget - last_op.arg.executed
           /\ world["ClientTemplate"].time.current_tick
                  = last_op.arg.current_tick + last_op.arg.executed
           /\ world["ClientTemplate"].time.current_tick <= latest(client_app.tick_samples)

\* C36: in every reachable state of every instance the current tick of the
\* simulation clock is at most its target tick
C36_CurrentNotAboveTarget ==
    \A i \in Instances : world[i].time.current_tick <= world[i].time.target_tick

\* the prediction world spawns entities of its own and gives them despawn
\* priorities; the template world, with other entities, is extracted into it
NextDespawnOrder ==
    \/ \E i \in SimulationWorlds : Build(i)
    \/ \E i \in SimulationWorlds : SpawnSimulationEntity(i)
    \/ InsertExtractDespawnPriority("ClientPrediction")
    \/ Extract("ClientTemplate", "ClientPrediction")

SpecDespawnOrder == Init /\ [][NextDespawnOrder]_vars

\* C37: an extraction despawns every entity of the target world whose id no
\* entity of the source world carries, and no entity whose id one does
\* carries; the despawns are queued in non-decreasing ExtractDespawnPriority,
\* an entity without the component counting as priority 0
C37_DespawnedWhenAbsent ==
    [][last_op'.op = "Extract" =>
          LET target == world[last_op'.instance]
              source_world == world[last_op'.arg]
              ids == {source_world.entities[e].id : e \in DOMAIN source_world.entities}
              absent == {e \in DOMAIN target.entities : target.entities[e].id \notin ids}
              despawned == last_op'.despawned
          IN  /\ \A e \in DOMAIN target.entities :
                     (e \in DOMAIN world'[last_op'.instance].entities) <=> e \notin absent
              /\ Len(despawned) = Cardinality(absent)
              /\ \A m, n \in DOMAIN despawned : m < n => despawned[m] <= despawned[n]]_vars

\* the prediction world runs in its task up to the target of the main world
\* and is extracted into the main world, by an ExtractSimulation schedule in
\* which a system of the app may remove the SourceWorld; systems that take
\* the PredictionWorld resource run while it is in the main world
NextHandOver ==
    \/ /\ prediction_world.in_main_world
       /\ \/ \E i \in {"ClientMain", "ClientPrediction"} : Build(i)
          \/ /\ world["ClientMain"].built /\ world["ClientPrediction"].built
             /\ \/ QueueTicks("ClientMain")
                \/ PollPredictionWorld
                \/ SetPredictionTarget
                \/ QueueAndRunPrediction
                \/ CompletePrediction
                \/ SetPredictionWorldExtracted
    \/ ExtractPredictionWorld(BOOLEAN)

SpecHandOver == Init /\ [][NextHandOver]_vars

\* C38: when extract_predicton_world returns, with Ok or with an error, the
\* PredictionWorld resource is in the main world, the prediction world is in
\* the state it had before (no reset was pending) and no SimulationUpdate
\* pass ran in the prediction world or in the main world
C38_SourceHandedBack ==
    [][(last_op'.op = "ExtractPredictionWorld" /\ prediction_world.world.reset = None)
          => /\ prediction_world'.in_main_world
             /\ world'["ClientPrediction"] = world["ClientPrediction"]
             /\ \A i \in {"ClientMain", "ClientPrediction"} :
                    world'[i].update_runs = world[i].update_runs]_vars

\* the frames of the server over real time, with a connected client
NextServerTime ==
    \/ Build("Server")
    \/ InsertPredictionClient(1)
    \/ SendSimulationResets
    \/ ServerDriveRealTime
    \/ ServerStepSimulation

SpecServerTime == Init /\ [][NextServerTime]_vars

\* C39: after each frame of the server the overstep is below the step
\* interval, the ticks queued in the frame are the step intervals that fit
\* into the previous overstep plus the frame's delta, and the ticks queued in
\* all are the step intervals that fit into the real time elapsed
C39_TicksOfElapsedTime ==
    /\ server_app.overstep < StepInterval
    /\ last_op.op = "ServerDriveRealTime"
           => last_op.arg.queued = (last_op.arg.overstep + last_op.arg.delta) \div StepInterval
    /\ world["Server"].time.target_tick = server_app.real_elapsed \div StepInterval

\* a frame that finds an overstep and queues two ticks
C39_Witness ==
    /\ last_op.op = "ServerDriveRealTime"
    /\ last_op.arg.overstep > 0
    /\ last_op.arg.queued = 2
    /\ server_app.overstep > 0
====
